---- MODULE Spec2Model ----
(***************************************************************************)
(* Model of the numerical core of the NMR buffer pH estimation app:        *)
(* buffer model (shift prediction), peak assignment, parameter vector      *)
(* construction and the guards of fitParameters.                           *)
(*                                                                         *)
(* Fixed-point units (all quantities are integers):                        *)
(*   chemical shift    1 unit = 0.1 ppm                                    *)
(*   pH and pKa        1 unit = 0.05                                       *)
(*   temperature       1 unit = 0.05 K                                     *)
(*   ionic strength    1 unit = 0.05 M                                     *)
(* A JavaScript object is a sequence of entries in insertion order, which  *)
(* is the order Object.entries walks it.                                   *)
(***************************************************************************)
EXTENDS Integers, Sequences, FiniteSets, TLC

VARIABLES op, args, pc, ret, lmCalls, boundsBuilt,
          round, loopConditions, loopResult, fitCalls, curve, app

vars == <<op, args, pc, ret, lmCalls, boundsBuilt,
          round, loopConditions, loopResult, fitCalls, curve, app>>

\* the locals round, conditions and result of fitWithReassignment, and the
\* number of fitParameters calls it has made; the locals of the loops of
\* generateShiftCurves; the state of the App component
locals == <<round, loopConditions, loopResult, fitCalls, curve, app>>

(***************************************************************************)
(* Bounds of the model.                                                    *)
(***************************************************************************)
\* longest observation list supplied for one nucleus
MaxObs == 2
\* largest distance handed to calculateConfidence directly
MaxDist == 11

\* longest pKa list passed to ionisationFractions
MaxPKaCount == 6

\* most parameters passed to calculateParameterUncertainties
MaxParams == 2

\* most residuals returned by a residual function
MaxResiduals == 2

\* most points a curve array of the model holds: the loop of
\* generateShiftCurves that never ends stops pushing at this length
MaxCurvePoints == 4

\* most actions of the user in one run of the App
MaxUserActions == 5

(***************************************************************************)
(* Program constants.                                                      *)
(***************************************************************************)
\* Infinity, the next-best distance when there is no second candidate
Infinity == 1000000
\* the fallback tolerance 1.0 ppm
FALLBACK_TOLERANCE == 10
\* 298.15 K and 0 M, the reference conditions of a buffer without a sample
DEFAULT_REF_TEMPERATURE == 5963
DEFAULT_REF_IONIC == 0
\* DEFAULT_OPTIONS.initialPH = 7.0
DEFAULT_INITIAL_PH == 140
\* box constraints of the optimizer
PH_MIN == 0
PH_MAX == 280
TEMPERATURE_MIN == 5460
TEMPERATURE_MAX == 7460
IONIC_MIN == 0
IONIC_MAX == 20
REF_MIN == -100
REF_MAX == 100

Nuclei == {"1H", "19F"}

\* DEFAULT_TOLERANCES (ppm * 10)
DEFAULT_TOLERANCES ==
  [n \in {"1H", "13C", "15N", "19F", "31P"} |->
     CASE n = "1H" -> 5
       [] n = "13C" -> 20
       [] n = "15N" -> 20
       [] n = "19F" -> 30
       [] n = "31P" -> 20]

(***************************************************************************)
(* Generic helpers for objects and arrays.                                 *)
(***************************************************************************)
Abs(x) == IF x < 0 THEN -x ELSE x

Range(s) == {s[i] : i \in 1..Len(s)}

\* sequences over S of length at most n
SeqUpTo(S, n) == UNION {[1..k -> S] : k \in 0..n}

\* obj[key] for an object given as a sequence of [key, value] entries;
\* the caller checks HasKey first (undefined otherwise)
HasKey(obj, key) == \E i \in 1..Len(obj) : obj[i].key = key

Get(obj, key) == obj[CHOOSE i \in 1..Len(obj) : obj[i].key = key].value

\* the concatenation of a sequence of sequences
RECURSIVE Flatten(_)
Flatten(ss) == IF ss = <<>> THEN <<>> ELSE Head(ss) \o Flatten(Tail(ss))

\* x / y rounded to the nearest unit (y > 0)
RoundDiv(x, y) == (2 * x + y) \div (2 * y)

\* obj.field ?? default, for an object given as a record
OrDefault(obj, field, default) ==
  IF field \in DOMAIN obj THEN obj[field] ELSE default

\* floor of the square root of n, for n <= 200 * 200
ISqrt(n) == CHOOSE r \in 0..200 : r * r <= n /\ n < (r + 1) * (r + 1)

\* [...shifts].sort((a, b) => a - b): stable, ascending.  An element is
\* inserted after every element that is <= it.
RECURSIVE InsertAscending(_, _)
InsertAscending(sorted, x) ==
  IF sorted = <<>> THEN <<x>>
  ELSE IF Head(sorted) <= x
       THEN <<Head(sorted)>> \o InsertAscending(Tail(sorted), x)
       ELSE <<x>> \o sorted

\* the shifts of a nucleus taken in the order the caller lists them
SortKeepOrder(s) == s

RECURSIVE SortAscending(_)
SortAscending(s) ==
  IF s = <<>> THEN <<>>
  ELSE InsertAscending(SortAscending(SubSeq(s, 1, Len(s) - 1)), s[Len(s)])

RECURSIVE SumSeq(_)
SumSeq(s) == IF s = <<>> THEN 0 ELSE Head(s) + SumSeq(Tail(s))

(***************************************************************************)
(* The buffer database of the model.  Identifiers contain no colon, so the *)
(* template string `${buffer_id}:${resonance_id}` is modelled as the       *)
(* pair <<buffer_id, resonance_id>>.                                       *)
(*                                                                         *)
(* Buffer A: one pKa (7.0), 1H resonances r1 and r2 and a 19F resonance    *)
(* that is also called r1.  Buffer B: two pKa (listed unsorted), one 1H    *)
(* resonance r1; its sample is missing from the samples map.               *)
(***************************************************************************)
LimitingShift(state, shift, tcoeff, icoeff) ==
  [ionisation_state |-> state, shift_ppm |-> shift,
   temperature_coefficient_ppm_per_K |-> tcoeff,
   ionic_strength_coefficient_ppm_per_M |-> icoeff]

BufferA ==
  [buffer_id |-> "A", buffer_name |-> "buffer A", sample_id |-> "s1",
   pKa_parameters |->
     <<[pKa |-> 140, dH_kJ_mol |-> 0, dCp_J_mol_K |-> 0,
        ionic_strength_model |-> "none",
        ionic_strength_coefficient_per_M |-> 0]>>,
   chemical_shifts |->
     <<[key |-> "1H", value |->
          <<[resonance_id |-> "r1", description |-> "A 1H r1",
             limiting_shifts |-> <<LimitingShift(0, 41, 0, 0),
                                   LimitingShift(1, 19, 0, 0)>>],
            [resonance_id |-> "r2", description |-> "A 1H r2",
             limiting_shifts |-> <<LimitingShift(0, 44, 1, 0),
                                   LimitingShift(1, 22, 1, 0)>>]>>],
       [key |-> "19F", value |->
          <<[resonance_id |-> "r1", description |-> "A 19F r1",
             limiting_shifts |-> <<LimitingShift(0, 111, 0, 0),
                                   LimitingShift(1, 89, 0, 0)>>]>>]>>]

BufferB ==
  [buffer_id |-> "B", buffer_name |-> "buffer B", sample_id |-> "s2",
   pKa_parameters |->
     <<[pKa |-> 160, dH_kJ_mol |-> 0, dCp_J_mol_K |-> 0,
        ionic_strength_model |-> "empirical",
        ionic_strength_coefficient_per_M |-> 0],
       [pKa |-> 120, dH_kJ_mol |-> 0, dCp_J_mol_K |-> 0,
        ionic_strength_model |-> "none",
        ionic_strength_coefficient_per_M |-> 0]>>,
   chemical_shifts |->
     <<[key |-> "1H", value |->
          <<[resonance_id |-> "r1", description |-> "B 1H r1",
             limiting_shifts |-> <<LimitingShift(0, 48, 0, 0),
                                   LimitingShift(1, 36, 0, 1),
                                   LimitingShift(2, 24, 0, 0),
                                   LimitingShift(3, 99, 0, 0)>>]>>]>>]

\* samplesMap: sample_id -> sample
SamplesMap ==
  <<[key |-> "s1",
     value |-> [reference_temperature_K |-> 5963,
                reference_ionic_strength_M |-> 3]]>>

\* the buffer selections a caller passes
BufferSelections ==
  {<<>>, <<BufferA>>, <<BufferB>>, <<BufferA, BufferB>>, <<BufferB, BufferA>>}

(***************************************************************************)
(* bufferModel.js                                                          *)
(***************************************************************************)
\* 100 * 10^(r/20), r = 0..19, rounded
Pow10Mantissa ==
  <<100, 112, 126, 141, 158, 178, 200, 224, 251, 282,
    316, 355, 398, 447, 501, 562, 631, 708, 794, 891>>

\* the largest n with 10^(n/20) a finite double (Number.MAX_VALUE is
\* 1.797e308 = 10^308.25)
MAX_FINITE_EXPONENT == 6165

\* 100000 * Math.pow(10, -d / 20) for d >= 0, truncated
Pow10Weight(d) ==
  LET q == d \div 20
      r == d % 20
  IN IF r = 0 THEN (IF q <= 5 THEN 10 ^ (5 - q) ELSE 0)
     ELSE IF q <= 2 THEN (10 ^ (2 - q)) * Pow10Mantissa[21 - r]
     ELSE IF q <= 4 THEN Pow10Mantissa[21 - r] \div (10 ^ (q - 2))
     ELSE 0

\* DAVIES_A = 0.5085, in units of 0.0001
DAVIES_A == 5085

\* ion_size_angstrom ?? 4.5, in units of 0.1 angstrom
DEFAULT_ION_SIZE == 45

\* a temperature correction that takes 298.15 K for the reference
\* temperature whatever the caller passes
CalculatePKaTemperatureDefaultReference(pKaParams, temperature, referenceTemperature) ==
  LET dH == OrDefault(pKaParams, "dH_kJ_mol", 0)
      T == temperature
      Tref == DEFAULT_REF_TEMPERATURE
  IN pKaParams.pKa
     + (IF dH # 0
        THEN RoundDiv(dH * (Tref - T) * 2089, (T * Tref) \div 10) ELSE 0)

\* calculatePKaTemperature.  dH is in kJ/mol and dCp in J/mol/K; with
\* temperatures in units of 0.05 K and R * LN10 = 19.1448,
\*   (dH * 1000 / (R * LN10)) * (1/T - 1/Tref)
\*     = 20893 * dH * (Tref - T) / (T * Tref)             pKa units,
\*   (dCp / (R * LN10)) * (Tref/T - 1 + Math.log(T/Tref))
\*     = dCp * (T - Tref)^2 / (1.9145 * T * Tref)         pKa units
\* (the bracket to second order in T - Tref).  A term is added only when
\* its coefficient is nonzero.
CalculatePKaTemperature(pKaParams, temperature, referenceTemperature) ==
  LET dH == OrDefault(pKaParams, "dH_kJ_mol", 0)
      dCp == OrDefault(pKaParams, "dCp_J_mol_K", 0)
      T == temperature
      Tref == referenceTemperature
  IN pKaParams.pKa
     + (IF dH # 0
        THEN RoundDiv(dH * (Tref - T) * 2089, (T * Tref) \div 10) ELSE 0)
     + (IF dCp # 0
        THEN RoundDiv(dCp * (T - Tref) * (T - Tref), ((T * Tref) \div 1000) * 1914)
        ELSE 0)

\* deltaZSquared = 1 + deprotonatedCharge^2 - protonatedCharge^2
DeltaZSquared(pKaParams) ==
  LET protonatedCharge == OrDefault(pKaParams, "protonated_charge", 0)
      deprotonatedCharge == protonatedCharge - 1
  IN 1 + deprotonatedCharge * deprotonatedCharge - protonatedCharge * protonatedCharge

\* calculatePKaIonicStrengthDavies; sqrtI is in hundredths, daviesTerm in
\* thousandths
CalculatePKaIonicStrengthDavies(pKaParams, ionicStrength) ==
  IF ionicStrength <= 0 THEN 0
  ELSE LET sqrtI == ISqrt(ionicStrength * 500)
           daviesTerm == (1000 * sqrtI) \div (100 + sqrtI) - 15 * ionicStrength
       IN RoundDiv(DAVIES_A * DeltaZSquared(pKaParams) * daviesTerm * 20, 10000000)

\* calculatePKaIonicStrengthExtendedDH, B = 0.328
CalculatePKaIonicStrengthExtendedDH(pKaParams, ionicStrength) ==
  IF ionicStrength <= 0 THEN 0
  ELSE LET ionSize == OrDefault(pKaParams, "ion_size_angstrom", DEFAULT_ION_SIZE)
           sqrtI == ISqrt(ionicStrength * 500)
           dhTerm == (10000 * sqrtI) \div (1000 + (328 * ionSize * sqrtI) \div 1000)
       IN RoundDiv(DAVIES_A * DeltaZSquared(pKaParams) * dhTerm * 20, 10000000)

\* calculatePKaIonicStrengthEmpirical
CalculatePKaIonicStrengthEmpirical(pKaParams, ionicStrength) ==
  OrDefault(pKaParams, "ionic_strength_coefficient_per_M", 0) * ionicStrength

\* calculatePKa
CalculatePKa(pKaParams, temperature, ionicStrength, referenceTemperature) ==
  LET model == OrDefault(pKaParams, "ionic_strength_model", "davies")
  IN CalculatePKaTemperature(pKaParams, temperature, referenceTemperature)
     + CASE model = "davies" ->
              CalculatePKaIonicStrengthDavies(pKaParams, ionicStrength)
         [] model = "extended_debye_huckel" ->
              CalculatePKaIonicStrengthExtendedDH(pKaParams, ionicStrength)
         [] model = "empirical" ->
              CalculatePKaIonicStrengthEmpirical(pKaParams, ionicStrength)
         [] OTHER -> 0

\* getBufferPKaValues: corrected pKa values, sorted ascending
GetBufferPKaValues(buffer, temperature, ionicStrength, referenceTemperature) ==
  SortAscending(
    [i \in 1..Len(buffer.pKa_parameters) |->
       CalculatePKa(buffer.pKa_parameters[i], temperature, ionicStrength,
                    referenceTemperature)])

\* exponent (in pH units) of the relative population of state i (0-based):
\* the sum of pKa_j - pH over j >= i
RelativeExponent(pH, pKaValues, i) ==
  SumSeq([k \in 1..(Len(pKaValues) - i) |-> pKaValues[i + k] - pH])

MinOf(S) == CHOOSE x \in S : \A y \in S : x <= y

MaxOf(S) == CHOOSE x \in S : \A y \in S : x >= y

\* ionisationFractions.  The relative population of state i is
\* 10^(e[i]/20); relatives and total are kept divided by the largest
\* relative and multiplied by 100000 (the factor cancels in r / total).
\* A relative whose exponent is beyond MAX_FINITE_EXPONENT is Infinity in
\* the code (overflow holds the states where it is), and so is the total
\* then or when the sum itself exceeds Number.MAX_VALUE (totalFinite).
\* The fraction of state i is relatives[i + 1] / total when totalFinite,
\* NaN (Infinity / Infinity) for a state of overflow, and 0 for a finite
\* relative over an infinite total.
IonisationFractions(pH, pKaValues) ==
  LET n == Len(pKaValues) + 1
  IN IF n = 1
     THEN [relatives |-> <<1>>, total |-> 1, overflow |-> {}, totalFinite |-> TRUE]
     ELSE LET e == [i \in 1..n |-> RelativeExponent(pH, pKaValues, i - 1)]
              m == MaxOf(Range(e))
              relatives == [i \in 1..n |-> Pow10Weight(m - e[i])]
              total == SumSeq(relatives)
              headroom == MAX_FINITE_EXPONENT - m
          IN [relatives |-> relatives, total |-> total,
              overflow |-> {i \in 1..n : e[i] > MAX_FINITE_EXPONENT},
              totalFinite |->
                /\ headroom >= 0
                /\ headroom < 20 =>
                     total * (Pow10Weight(headroom) \div 1000) <= 10000000]

\* calculateLimitingShift
CalculateLimitingShift(limitingShift, temperature, ionicStrength, referenceTemperature, referenceIonicStrength) ==
  limitingShift.shift_ppm
  + limitingShift.temperature_coefficient_ppm_per_K
      * (temperature - referenceTemperature)
  + limitingShift.ionic_strength_coefficient_ppm_per_M
      * (ionicStrength - referenceIonicStrength)

\* predictShift: the fraction-weighted sum of the corrected limiting
\* shifts; a limiting shift whose state has no fraction contributes 0.
\* Every call made here has its pH within the optimizer's bounds and the
\* pKa values of the database, which keep the fractions finite.
PredictShift(resonance, pKaValues, pH, temperature, ionicStrength, referenceTemperature, referenceIonicStrength) ==
  LET fractions == IonisationFractions(pH, pKaValues)
      ls == resonance.limiting_shifts
      term(k) ==
        LET stateIndex == ls[k].ionisation_state
            fraction == IF stateIndex + 1 \in 1..Len(fractions.relatives)
                        THEN fractions.relatives[stateIndex + 1] ELSE 0
        IN fraction * CalculateLimitingShift(ls[k], temperature,
                          ionicStrength, referenceTemperature,
                          referenceIonicStrength)
  IN RoundDiv(SumSeq([k \in 1..Len(ls) |-> term(k)]), fractions.total)

\* sample?.reference_temperature_K ?? 298.15
RefTemp(samplesMap, buffer) ==
  IF HasKey(samplesMap, buffer.sample_id)
  THEN Get(samplesMap, buffer.sample_id).reference_temperature_K
  ELSE DEFAULT_REF_TEMPERATURE

\* sample?.reference_ionic_strength_M ?? 0
RefIonic(samplesMap, buffer) ==
  IF HasKey(samplesMap, buffer.sample_id)
  THEN Get(samplesMap, buffer.sample_id).reference_ionic_strength_M
  ELSE DEFAULT_REF_IONIC

\* predictBufferShifts: nucleus -> array of {resonance_id, description, shift}
PredictBufferShifts(buffer, pH, temperature, ionicStrength, samplesMap) ==
  LET refTemp == RefTemp(samplesMap, buffer)
      refIonic == RefIonic(samplesMap, buffer)
      pKaValues == GetBufferPKaValues(buffer, temperature, ionicStrength, refTemp)
      cs == buffer.chemical_shifts
  IN [i \in 1..Len(cs) |->
        [key |-> cs[i].key,
         value |-> [r \in 1..Len(cs[i].value) |->
                      [resonance_id |-> cs[i].value[r].resonance_id,
                       description |-> cs[i].value[r].description,
                       shift |-> PredictShift(cs[i].value[r], pKaValues, pH,
                                   temperature, ionicStrength, refTemp,
                                   refIonic)]]]]

(***************************************************************************)
(* peakAssignment.js                                                       *)
(***************************************************************************)
\* calculateConfidence with the high and medium thresholds taken from one
\* another
CalculateConfidenceSwappedThresholds(distance, tolerance, nextBestDistance) ==
  LET absDistance == Abs(distance)
  IN IF absDistance > tolerance THEN "none"
     ELSE IF 10 * absDistance < 6 * tolerance
             /\ 10 * nextBestDistance > 3 * tolerance THEN "high"
     ELSE IF 10 * absDistance < 3 * tolerance THEN "medium"
     ELSE "low"

\* calculateConfidence; 0.3 * tolerance and 0.6 * tolerance are compared
\* exactly (both sides times 10)
CalculateConfidence(distance, tolerance, nextBestDistance) ==
  LET absDistance == Abs(distance)
  IN IF absDistance > tolerance THEN "none"
     ELSE IF 10 * absDistance < 3 * tolerance
             /\ 10 * nextBestDistance > 6 * tolerance THEN "high"
     ELSE IF 10 * absDistance < 6 * tolerance THEN "medium"
     ELSE "low"

\* the predictions one buffer contributes to one nucleus
BufferPredictions(buffer, nucleus, pH, temperature, ionicStrength, samplesMap) ==
  LET predictions == PredictBufferShifts(buffer, pH, temperature,
                                         ionicStrength, samplesMap)
  IN IF HasKey(predictions, nucleus)
     THEN LET rp == Get(predictions, nucleus)
          IN [k \in 1..Len(rp) |->
                [buffer_id |-> buffer.buffer_id,
                 buffer_name |-> buffer.buffer_name,
                 resonance_id |-> rp[k].resonance_id,
                 description |-> rp[k].description,
                 predicted_shift |-> rp[k].shift]]
     ELSE <<>>

\* generatePredictions, read at one nucleus: allPredictions[nucleus] is the
\* concatenation, in buffer order, of every buffer's predictions for it
\* (<<>> stands for a nucleus that no buffer predicts)
RECURSIVE GeneratePredictions(_, _, _, _, _, _)
GeneratePredictions(buffers, samplesMap, pH, temperature, ionicStrength, nucleus) ==
  IF buffers = <<>> THEN <<>>
  ELSE BufferPredictions(Head(buffers), nucleus, pH, temperature,
                         ionicStrength, samplesMap)
       \o GeneratePredictions(Tail(buffers), samplesMap, pH, temperature,
                              ionicStrength, nucleus)

\* withDistances.sort((a, b) => a.absDistance - b.absDistance): stable
RECURSIVE InsertByAbsDistance(_, _)
InsertByAbsDistance(sorted, x) ==
  IF sorted = <<>> THEN <<x>>
  ELSE IF Head(sorted).absDistance <= x.absDistance
       THEN <<Head(sorted)>> \o InsertByAbsDistance(Tail(sorted), x)
       ELSE <<x>> \o sorted

RECURSIVE SortByAbsDistance(_)
SortByAbsDistance(s) ==
  IF s = <<>> THEN <<>>
  ELSE InsertByAbsDistance(SortByAbsDistance(SubSeq(s, 1, Len(s) - 1)), s[Len(s)])

\* the candidates of assignSingleShift, nearest first
WithDistances(observedShift, predictions) ==
  SortByAbsDistance(
    [k \in 1..Len(predictions) |->
       [pred |-> predictions[k],
        distance |-> observedShift - predictions[k].predicted_shift,
        absDistance |-> Abs(observedShift - predictions[k].predicted_shift)]])

\* the entry of a candidate in `nearest` and in `alternatives`
Candidate(c) ==
  [buffer_id |-> c.pred.buffer_id, buffer_name |-> c.pred.buffer_name,
   resonance_id |-> c.pred.resonance_id,
   predicted_shift |-> c.pred.predicted_shift, distance |-> c.distance]

\* the alternatives of an assigned record
Alternatives(confidence, withDistances, tolerance) ==
  IF confidence # "high" /\ Len(withDistances) >= 2
     /\ withDistances[2].absDistance < tolerance
  THEN <<Candidate(withDistances[2])>>
  ELSE <<>>

\* assignSingleShift
AssignSingleShift(observedShift, predictions, tolerance) ==
  IF Len(predictions) = 0
  THEN [observed_shift |-> observedShift, assigned |-> FALSE,
        confidence |-> "none", message |-> "No predictions available"]
  ELSE LET withDistances == WithDistances(observedShift, predictions)
           best == withDistances[1]
           nextBestDistance == IF Len(withDistances) >= 2
                               THEN withDistances[2].absDistance
                               ELSE Infinity
           confidence == CalculateConfidence(best.absDistance, tolerance,
                                             nextBestDistance)
       IN IF confidence = "none"
          THEN [observed_shift |-> observedShift, assigned |-> FALSE,
                confidence |-> "none", nearest |-> Candidate(best),
                message |-> "No prediction within tolerance"]
          ELSE [observed_shift |-> observedShift, assigned |-> TRUE,
                confidence |-> confidence,
                buffer_id |-> best.pred.buffer_id,
                buffer_name |-> best.pred.buffer_name,
                resonance_id |-> best.pred.resonance_id,
                description |-> best.pred.description,
                predicted_shift |-> best.pred.predicted_shift,
                residual |-> best.distance,
                alternatives |-> Alternatives(confidence, withDistances,
                                              tolerance)]

\* the tolerance of a nucleus with the caller's tolerances ignored
ToleranceDefaultOnly(tolerances, nucleus) ==
  IF nucleus \in DOMAIN DEFAULT_TOLERANCES THEN DEFAULT_TOLERANCES[nucleus]
  ELSE FALLBACK_TOLERANCE

\* tolerances[nucleus] ?? DEFAULT_TOLERANCES[nucleus] ?? 1.0
Tolerance(tolerances, nucleus) ==
  IF HasKey(tolerances, nucleus) THEN Get(tolerances, nucleus)
  ELSE IF nucleus \in DOMAIN DEFAULT_TOLERANCES THEN DEFAULT_TOLERANCES[nucleus]
  ELSE FALLBACK_TOLERANCE

\* `${p.buffer_id}:${p.resonance_id}`
PredictionKey(p) == <<p.buffer_id, p.resonance_id>>

\* the candidates of an observation with nothing excluded
AvailablePredictionsUnfiltered(nucleusPredictions, usedPredictions) ==
  nucleusPredictions

\* nucleusPredictions.filter(p => !usedPredictions.has(key of p))
AvailablePredictions(nucleusPredictions, usedPredictions) ==
  SelectSeq(nucleusPredictions, LAMBDA p : PredictionKey(p) \notin usedPredictions)

\* the inner loop of assignPeaks over the sorted shifts of one nucleus;
\* returns the records of the nucleus and the grown set of used predictions
RECURSIVE AssignNucleus(_, _, _, _, _)
AssignNucleus(sortedShifts, nucleusPredictions, tolerance, usedPredictions, nucleus) ==
  IF sortedShifts = <<>>
  THEN [records |-> <<>>, used |-> usedPredictions]
  ELSE LET assignment ==
             AssignSingleShift(Head(sortedShifts),
               AvailablePredictions(nucleusPredictions, usedPredictions),
               tolerance)
           used1 == IF assignment.assigned
                    THEN usedPredictions \cup {PredictionKey(assignment)}
                    ELSE usedPredictions
           rest == AssignNucleus(Tail(sortedShifts), nucleusPredictions,
                                 tolerance, used1, nucleus)
       IN [records |->
             <<assignment @@ [nucleus |-> nucleus]>> \o rest.records,
           used |-> rest.used]

\* the outer loop of assignPeaks over Object.entries(observedShifts); one
\* set of used predictions serves the whole call
RECURSIVE AssignEntries(_, _, _, _, _, _, _, _)
AssignEntries(entries, buffers, samplesMap, pH, temperature, ionicStrength, tolerances, usedPredictions) ==
  IF entries = <<>> THEN <<>>
  ELSE LET nucleus == Head(entries).key
           r == AssignNucleus(SortAscending(Head(entries).value),
                  GeneratePredictions(buffers, samplesMap, pH, temperature,
                                      ionicStrength, nucleus),
                  Tolerance(tolerances, nucleus), usedPredictions, nucleus)
       IN <<[key |-> nucleus, value |-> r.records]>>
          \o AssignEntries(Tail(entries), buffers, samplesMap, pH,
                           temperature, ionicStrength, tolerances, r.used)

\* assignPeaks: nucleus -> array of assignment records
AssignPeaks(observedShifts, buffers, samplesMap, pH, temperature, ionicStrength, tolerances) ==
  AssignEntries(observedShifts, buffers, samplesMap, pH, temperature,
                ionicStrength, tolerances, {})

\* getAssignedPeaksForFitting: the assigned records, flattened
RECURSIVE GetAssignedPeaksForFitting(_)
GetAssignedPeaksForFitting(assignments) ==
  IF assignments = <<>> THEN <<>>
  ELSE LET assigned == SelectSeq(Head(assignments).value, LAMBDA a : a.assigned)
       IN [k \in 1..Len(assigned) |->
             [nucleus |-> Head(assignments).key,
              observed_shift |-> assigned[k].observed_shift,
              buffer_id |-> assigned[k].buffer_id,
              resonance_id |-> assigned[k].resonance_id,
              predicted_shift |-> assigned[k].predicted_shift]]
          \o GetAssignedPeaksForFitting(Tail(assignments))

(***************************************************************************)
(* fitting.js.  An optional number is <<>> (undefined) or <<v>>; an        *)
(* options field that the caller did not write is absent from the record.  *)
(***************************************************************************)
\* DEFAULT_OPTIONS
DEFAULT_OPTIONS ==
  [refineTemperature |-> FALSE, refineIonicStrength |-> FALSE,
   refineReferences |-> <<>>, maxIterations |-> 100,
   initialPH |-> <<DEFAULT_INITIAL_PH>>]

\* { ...DEFAULT_OPTIONS, ...options }
MergeOptions(options) ==
  [f \in DOMAIN DEFAULT_OPTIONS |->
     IF f \in DOMAIN options THEN options[f] ELSE DEFAULT_OPTIONS[f]]

\* `ref_${nucleus}`
RefKey(nucleus) == "ref_" \o nucleus

\* key.startsWith('ref_'), for the keys buildParameterVector writes: a key
\* starts with ref_ exactly when it is the key of some nucleus
IsRefKey(key) == \E n \in Nuclei : key = RefKey(n)

\* key.slice(4)
RefNucleus(key) == CHOOSE n \in Nuclei : RefKey(n) = key

\* conditions.referenceOffsets?.[nucleus] ?? 0
ReferenceOffset(referenceOffsets, nucleus) ==
  IF HasKey(referenceOffsets, nucleus) THEN Get(referenceOffsets, nucleus) ELSE 0

\* a parameter vector that takes no reference offset
PushNoReferences(entries, conditions, pv) == pv

\* the loop of buildParameterVector over Object.entries(refineReferences):
\* one parameter per entry whose flag is true, at the next free index
RECURSIVE PushReferences(_, _, _)
PushReferences(entries, conditions, pv) ==
  IF entries = <<>> THEN pv
  ELSE PushReferences(Tail(entries), conditions,
         IF Head(entries).value
         THEN [params |-> Append(pv.params,
                  ReferenceOffset(conditions.referenceOffsets, Head(entries).key)),
               parameterMap |-> Append(pv.parameterMap,
                  [key |-> RefKey(Head(entries).key),
                   value |-> [index |-> Len(pv.params),
                              name |-> Head(entries).key
                                        \o " reference offset (ppm)"]])]
         ELSE pv)

\* buildParameterVector: { params, parameterMap }; indices are 0-based
BuildParameterVector(conditions, options) ==
  LET pv0 == [params |-> <<conditions.pH>>,
              parameterMap |-> <<[key |-> "pH",
                                  value |-> [index |-> 0, name |-> "pH"]]>>]
      pv1 == IF options.refineTemperature
             THEN [params |-> Append(pv0.params, conditions.temperature),
                   parameterMap |-> Append(pv0.parameterMap,
                     [key |-> "temperature",
                      value |-> [index |-> Len(pv0.params),
                                 name |-> "Temperature (K)"]])]
             ELSE pv0
      pv2 == IF options.refineIonicStrength
             THEN [params |-> Append(pv1.params, conditions.ionicStrength),
                   parameterMap |-> Append(pv1.parameterMap,
                     [key |-> "ionicStrength",
                      value |-> [index |-> Len(pv1.params),
                                 name |-> "Ionic strength (M)"]])]
             ELSE pv1
  IN PushReferences(options.refineReferences, conditions, pv2)

\* params[mapping.index]
ParamAt(params, mapping) == params[mapping.index + 1]

\* the loop of extractConditions that overwrites the reference offsets of
\* the refined nuclei: obj[nucleus] = value
SetKey(obj, key, value) ==
  IF HasKey(obj, key)
  THEN [i \in 1..Len(obj) |->
          IF obj[i].key = key THEN [key |-> key, value |-> value] ELSE obj[i]]
  ELSE Append(obj, [key |-> key, value |-> value])

RECURSIVE ExtractReferenceOffsets(_, _, _)
ExtractReferenceOffsets(entries, params, referenceOffsets) ==
  IF entries = <<>> THEN referenceOffsets
  ELSE ExtractReferenceOffsets(Tail(entries), params,
         IF IsRefKey(Head(entries).key)
         THEN SetKey(referenceOffsets, RefNucleus(Head(entries).key),
                     ParamAt(params, Head(entries).value))
         ELSE referenceOffsets)

\* extractConditions
ExtractConditions(params, parameterMap, baseConditions) ==
  [pH |-> ParamAt(params, Get(parameterMap, "pH")),
   temperature |-> IF HasKey(parameterMap, "temperature")
                   THEN ParamAt(params, Get(parameterMap, "temperature"))
                   ELSE baseConditions.temperature,
   ionicStrength |-> IF HasKey(parameterMap, "ionicStrength")
                     THEN ParamAt(params, Get(parameterMap, "ionicStrength"))
                     ELSE baseConditions.ionicStrength,
   referenceOffsets |-> ExtractReferenceOffsets(parameterMap, params,
                          baseConditions.referenceOffsets)]

\* buffersMap.get(buffer_id): the last buffer of the list with that id
BufferById(buffers, id) ==
  buffers[CHOOSE i \in 1..Len(buffers) :
            /\ buffers[i].buffer_id = id
            /\ \A j \in (i + 1)..Len(buffers) : buffers[j].buffer_id # id]

\* the function createResidualFunction returns, applied to params:
\* observed - (predicted + reference offset), per assigned peak
Residuals(assignedPeaks, buffers, samplesMap, parameterMap, baseConditions, params) ==
  LET conditions == ExtractConditions(params, parameterMap, baseConditions)
  IN [k \in 1..Len(assignedPeaks) |->
        LET peak == assignedPeaks[k]
            buffer == BufferById(buffers, peak.buffer_id)
            resonances == Get(buffer.chemical_shifts, peak.nucleus)
            resonance == resonances[CHOOSE r \in 1..Len(resonances) :
                           /\ resonances[r].resonance_id = peak.resonance_id
                           /\ \A q \in 1..(r - 1) :
                                resonances[q].resonance_id # peak.resonance_id]
            refTemp == RefTemp(samplesMap, buffer)
            refIonic == RefIonic(samplesMap, buffer)
            pKaValues == GetBufferPKaValues(buffer, conditions.temperature,
                                            conditions.ionicStrength, refTemp)
            predictedShift ==
              PredictShift(resonance, pKaValues, conditions.pH,
                           conditions.temperature, conditions.ionicStrength,
                           refTemp, refIonic)
              + ReferenceOffset(conditions.referenceOffsets, peak.nucleus)
        IN peak.observed_shift - predictedShift]

\* opts.initialPH ?? initialConditions.pH ?? 7.0
SeedPH(opts, initialConditions) ==
  IF opts.initialPH # <<>> THEN opts.initialPH[1]
  ELSE IF "pH" \in DOMAIN initialConditions /\ initialConditions.pH # <<>>
       THEN initialConditions.pH[1]
  ELSE DEFAULT_INITIAL_PH

\* the baseConditions of fitParameters
BaseConditions(opts, initialConditions) ==
  [temperature |-> initialConditions.temperature,
   ionicStrength |-> initialConditions.ionicStrength,
   referenceOffsets |-> IF "referenceOffsets" \in DOMAIN initialConditions
                        THEN initialConditions.referenceOffsets ELSE <<>>,
   pH |-> SeedPH(opts, initialConditions)]

\* fitParameters without its guard on the assigned peaks
NoPeaksAssignedNever(assignedPeaks) == FALSE

\* assignedPeaks.length === 0
NoPeaksAssigned(assignedPeaks) == Len(assignedPeaks) = 0

\* the degrees of freedom with the two counts exchanged
DegreesOfFreedomExchanged(nObs, nParams) == nParams - nObs

\* const dof = nObs - nParams
DegreesOfFreedom(nObs, nParams) == nObs - nParams

\* a guard that also trips at zero degrees of freedom
IsUnderdeterminedAtZero(dof) == dof <= 0

\* if (dof < 0)
IsUnderdetermined(dof) == dof < 0

\* minValues with the roles read off the position: index 1 taken for the
\* temperature and index 2 for the ionic strength
MinValuesByPosition(params, parameterMap) ==
  [i \in 1..Len(params) |->
     IF i = 1 THEN PH_MIN
     ELSE IF i = 2 THEN TEMPERATURE_MIN
     ELSE IF i = 3 THEN IONIC_MIN
     ELSE REF_MIN]

\* minValues
MinValues(params, parameterMap) ==
  [i \in 1..Len(params) |->
     IF i - 1 = Get(parameterMap, "pH").index THEN PH_MIN
     ELSE IF HasKey(parameterMap, "temperature")
             /\ i - 1 = Get(parameterMap, "temperature").index
          THEN TEMPERATURE_MIN
     ELSE IF HasKey(parameterMap, "ionicStrength")
             /\ i - 1 = Get(parameterMap, "ionicStrength").index
          THEN IONIC_MIN
     ELSE REF_MIN]

\* maxValues
MaxValues(params, parameterMap) ==
  [i \in 1..Len(params) |->
     IF i - 1 = Get(parameterMap, "pH").index THEN PH_MAX
     ELSE IF HasKey(parameterMap, "temperature")
             /\ i - 1 = Get(parameterMap, "temperature").index
          THEN TEMPERATURE_MAX
     ELSE IF HasKey(parameterMap, "ionicStrength")
             /\ i - 1 = Get(parameterMap, "ionicStrength").index
          THEN IONIC_MAX
     ELSE REF_MAX]

(***************************************************************************)
(* The optimizer, levenbergMarquardt of ml-levenberg-marquardt, is a       *)
(* library: a call either throws or returns parameter values inside the    *)
(* box [minValues, maxValues] and an iteration count.  A behaviour names   *)
(* how far each kind of parameter moves from its initial value.            *)
(***************************************************************************)
LMBehaviours ==
  {[throws |-> TRUE, dpH |-> 0, dT |-> 0, dI |-> 0, dRef |-> 0, iterations |-> 0],
   [throws |-> FALSE, dpH |-> 0, dT |-> 0, dI |-> 0, dRef |-> 0, iterations |-> 5],
   [throws |-> FALSE, dpH |-> 1, dT |-> 1, dI |-> 0, dRef |-> 1, iterations |-> 5],
   [throws |-> FALSE, dpH |-> 2, dT |-> 0, dI |-> -3, dRef |-> 0, iterations |-> 100],
   [throws |-> FALSE, dpH |-> -20, dT |-> 0, dI |-> 0, dRef |-> -200, iterations |-> 7]}

Clamp(x, lo, hi) == IF x < lo THEN lo ELSE IF x > hi THEN hi ELSE x

\* result.parameterValues of a call that returns
LMParameterValues(lm, initialValues, parameterMap, minValues, maxValues) ==
  [i \in 1..Len(initialValues) |->
     LET d == IF i - 1 = Get(parameterMap, "pH").index THEN lm.dpH
              ELSE IF HasKey(parameterMap, "temperature")
                      /\ i - 1 = Get(parameterMap, "temperature").index
                   THEN lm.dT
              ELSE IF HasKey(parameterMap, "ionicStrength")
                      /\ i - 1 = Get(parameterMap, "ionicStrength").index
                   THEN lm.dI
              ELSE lm.dRef
     IN Clamp(initialValues[i] + d, minValues[i], maxValues[i])]

\* residuals.reduce((sum, r) => sum + r * r, 0)
RECURSIVE SumSquares(_)
SumSquares(residuals) ==
  IF residuals = <<>> THEN 0
  ELSE Head(residuals) * Head(residuals) + SumSquares(Tail(residuals))

\* the parameters object of a successful result (value and name per key)
ParameterResults(parameterMap, fittedParams) ==
  [i \in 1..Len(parameterMap) |->
     [key |-> parameterMap[i].key,
      value |-> [value |-> ParamAt(fittedParams, parameterMap[i].value),
                 name |-> parameterMap[i].value.name]]]

\* a reduced chi-squared that always divides by the degrees of freedom
ReducedChiSquaredAlwaysDivided(chiSquared, dof) == [num |-> chiSquared, den |-> dof]

\* dof > 0 ? chiSquared / dof : chiSquared, as the fraction num / den
ReducedChiSquared(chiSquared, dof) ==
  [num |-> chiSquared, den |-> IF dof > 0 THEN dof ELSE 1]

\* fitParameters from the call of the optimizer on (the try block): the
\* optimizer throws, or its parameter values are turned into the result
FitOptimize(observedShifts, buffers, samplesMap, opts, baseConditions, assignments, assignedPeaks, pv, lm) ==
  LET nParams == Len(pv.params)
      nObs == Len(assignedPeaks)
      dof == DegreesOfFreedom(nObs, nParams)
      fittedParams ==
        LMParameterValues(lm, pv.params, pv.parameterMap,
                          MinValues(pv.params, pv.parameterMap),
                          MaxValues(pv.params, pv.parameterMap))
      fittedConditions == ExtractConditions(fittedParams, pv.parameterMap,
                                            baseConditions)
      residuals == Residuals(assignedPeaks, buffers, samplesMap,
                             pv.parameterMap, baseConditions, fittedParams)
      sumSquares == SumSquares(residuals)
  IN IF lm.throws
     THEN [success |-> FALSE,
           error |-> "Fitting failed: " \o "optimizer error",
           assignments |-> assignments]
     ELSE [success |-> TRUE,
           parameters |-> ParameterResults(pv.parameterMap, fittedParams),
           conditions |-> fittedConditions,
           assignments |-> AssignPeaks(observedShifts, buffers, samplesMap,
                             fittedConditions.pH, fittedConditions.temperature,
                             fittedConditions.ionicStrength, <<>>),
           residuals |-> residuals,
           statistics |->
             [nObservations |-> nObs, nParameters |-> nParams,
              degreesOfFreedom |-> dof, sumSquares |-> sumSquares,
              chiSquared |-> sumSquares,
              reducedChiSquared |-> ReducedChiSquared(sumSquares, dof),
              iterations |-> lm.iterations],
           convergence |->
             [converged |-> lm.iterations < opts.maxIterations,
              iterations |-> lm.iterations]]

\* fitParameters from the first guard on: no assigned peak, then a negative
\* number of degrees of freedom, end the call before the bounds are built
\* and the optimizer is called.  Returns the result object together with
\* the number of optimizer calls made and whether the bounds were built.
FitGuarded(observedShifts, buffers, samplesMap, opts, baseConditions, assignments, assignedPeaks, pv, lm) ==
  IF NoPeaksAssigned(assignedPeaks)
  THEN [result |-> [success |-> FALSE,
                    error |-> "No peaks could be assigned to buffer resonances",
                    assignments |-> assignments],
        lmCalls |-> 0, boundsBuilt |-> FALSE]
  ELSE IF IsUnderdetermined(DegreesOfFreedom(Len(assignedPeaks), Len(pv.params)))
  THEN [result |-> [success |-> FALSE,
                    error |-> "Underdetermined system",
                    assignments |-> assignments,
                    nObservations |-> Len(assignedPeaks),
                    nParameters |-> Len(pv.params),
                    degreesOfFreedom |->
                      DegreesOfFreedom(Len(assignedPeaks), Len(pv.params))],
        lmCalls |-> 0, boundsBuilt |-> FALSE]
  ELSE [result |-> FitOptimize(observedShifts, buffers, samplesMap, opts,
                     baseConditions, assignments, assignedPeaks, pv, lm),
        lmCalls |-> 1, boundsBuilt |-> TRUE]

\* fitParameters once the peaks are assigned at the seed conditions
FitAssigned(observedShifts, buffers, samplesMap, opts, baseConditions, assignments, lm) ==
  FitGuarded(observedShifts, buffers, samplesMap, opts, baseConditions,
             assignments, GetAssignedPeaksForFitting(assignments),
             BuildParameterVector(baseConditions, opts), lm)

\* fitParameters once the options are merged with the defaults
FitWithOptions(observedShifts, buffers, samplesMap, initialConditions, opts, lm) ==
  FitAssigned(observedShifts, buffers, samplesMap, opts,
              BaseConditions(opts, initialConditions),
              AssignPeaks(observedShifts, buffers, samplesMap,
                          SeedPH(opts, initialConditions),
                          initialConditions.temperature,
                          initialConditions.ionicStrength, <<>>),
              lm)

\* fitParameters.  lm is the behaviour of the optimizer should it be called.
FitParameters(observedShifts, buffers, samplesMap, initialConditions, options, lm) ==
  FitWithOptions(observedShifts, buffers, samplesMap, initialConditions,
                 MergeOptions(options), lm)

(***************************************************************************)
(* validation.js                                                           *)
(***************************************************************************)
\* the loop of countParameters over Object.entries(refineReferences ?? {})
RECURSIVE CountReferences(_)
CountReferences(entries) ==
  IF entries = <<>> THEN 0
  ELSE (IF Head(entries).value THEN 1 ELSE 0) + CountReferences(Tail(entries))

\* countParameters(options).count
CountParameters(options) ==
  1 + (IF "refineTemperature" \in DOMAIN options /\ options.refineTemperature
       THEN 1 ELSE 0)
    + (IF "refineIonicStrength" \in DOMAIN options /\ options.refineIonicStrength
       THEN 1 ELSE 0)
    + CountReferences(IF "refineReferences" \in DOMAIN options
                      THEN options.refineReferences ELSE <<>>)

(***************************************************************************)
(* The inputs callers supply.                                              *)
(***************************************************************************)
\* observedShifts objects: entries of distinct nuclei, in either order, the
\* 1H shifts drawn from h and the 19F shifts from f
ObservedShiftsOver(h, f) ==
  LET values(n) == IF n = "1H" THEN h ELSE f
  IN {obs \in SeqUpTo([key : Nuclei,
                       value : UNION {SeqUpTo(values(n), MaxObs) : n \in Nuclei}],
                      Cardinality(Nuclei)) :
        /\ \A i \in 1..Len(obs) :
              obs[i].value \in SeqUpTo(values(obs[i].key), MaxObs)
        /\ \A i, j \in 1..Len(obs) : i # j => obs[i].key # obs[j].key}

\* the observations handed to assignPeaks and to fitParameters
ObservedShiftsChoices == ObservedShiftsOver({24, 28, 29, 30, 38}, {100})

FitObservedShiftsChoices == ObservedShiftsOver({29, 38}, {100})

\* trial conditions of a direct assignPeaks call
TrialConditions ==
  {[pH |-> 140, temperature |-> 5963, ionicStrength |-> 3],
   [pH |-> 120, temperature |-> 5963, ionicStrength |-> 3],
   [pH |-> 141, temperature |-> 5964, ionicStrength |-> 0]}

\* custom tolerances of a direct assignPeaks call
TolerancesChoices == {<<>>, <<[key |-> "1H", value |-> 3]>>}

\* tolerances and shifts handed to calculateConfidence and assignSingleShift
ToleranceValues == {0, 3, 5, 10}

SingleShiftValues == 22..45

\* refineReferences objects: entries of distinct nuclei with a flag each
RefineReferencesChoices ==
  {rr \in SeqUpTo([key : Nuclei, value : BOOLEAN], Cardinality(Nuclei)) :
     \A i, j \in 1..Len(rr) : i # j => rr[i].key # rr[j].key}

ReferenceOffsetsChoices == {<<>>, <<[key |-> "1H", value |-> 2]>>}

\* options objects handed to fitParameters
FitOptionsChoices ==
  {[refineTemperature |-> FALSE, refineIonicStrength |-> FALSE],
   [refineTemperature |-> TRUE, refineIonicStrength |-> FALSE,
    refineReferences |-> <<>>, initialPH |-> <<120>>],
   [refineTemperature |-> TRUE, refineIonicStrength |-> TRUE,
    refineReferences |-> <<>>, initialPH |-> <<DEFAULT_INITIAL_PH>>],
   [refineTemperature |-> FALSE, refineIonicStrength |-> FALSE,
    refineReferences |-> <<[key |-> "1H", value |-> TRUE]>>],
   [refineTemperature |-> FALSE, refineIonicStrength |-> TRUE,
    refineReferences |-> <<[key |-> "19F", value |-> TRUE],
                           [key |-> "1H", value |-> FALSE]>>,
    initialPH |-> <<>>]}

\* initial conditions handed to fitParameters
InitialConditionsChoices ==
  {[temperature |-> 5963, ionicStrength |-> 3, referenceOffsets |-> <<>>],
   [temperature |-> 5963, ionicStrength |-> 3, pH |-> <<120>>],
   [temperature |-> 5964, ionicStrength |-> 0, pH |-> <<140>>,
    referenceOffsets |-> <<[key |-> "1H", value |-> 1]>>]}

\* every list of predictions assignSingleShift is handed: the predictions of
\* a nucleus with any set of them already used
PredictionLists ==
  {AvailablePredictions(
     GeneratePredictions(sel, SamplesMap, c.pH, c.temperature, c.ionicStrength, "1H"),
     used) :
     sel \in BufferSelections, c \in TrialConditions,
     used \in SUBSET {<<"A", "r1">>, <<"A", "r2">>, <<"B", "r1">>}}

(***************************************************************************)
(* The state machine.  The core is stateless: a behaviour is one call.     *)
(* Init is the moment of the call (op and args hold the function and its   *)
(* arguments, pc = "call"); the action of the function runs it to its      *)
(* return (pc = "done") and leaves in ret what it returned, in lmCalls the *)
(* number of optimizer calls it made and in boundsBuilt whether it built   *)
(* the optimizer's bounds.  Buffers are passed by buffer_id.               *)
(***************************************************************************)
Database == [id \in {"A", "B"} |-> IF id = "A" THEN BufferA ELSE BufferB]

Buffers(ids) == [i \in 1..Len(ids) |-> Database[ids[i]]]

BufferSelectionIds == {<<>>, <<"A">>, <<"B">>, <<"A", "B">>, <<"B", "A">>}

CalculateConfidenceArgs ==
  [distance : (-MaxDist)..MaxDist, tolerance : ToleranceValues,
   nextBestDistance : (0..MaxDist) \cup {Infinity}]

AssignSingleShiftArgs ==
  [observedShift : SingleShiftValues, predictions : PredictionLists,
   tolerance : ToleranceValues]

AssignPeaksArgs ==
  {[observedShifts |-> obs, buffers |-> sel, pH |-> c.pH,
    temperature |-> c.temperature, ionicStrength |-> c.ionicStrength,
    tolerances |-> tol] :
     obs \in ObservedShiftsChoices, sel \in BufferSelectionIds,
     c \in TrialConditions, tol \in TolerancesChoices}

BuildParameterVectorArgs ==
  {[conditions |-> [pH |-> c.pH, temperature |-> c.temperature,
                    ionicStrength |-> c.ionicStrength,
                    referenceOffsets |-> ro],
    options |-> MergeOptions([refineTemperature |-> rt,
                              refineIonicStrength |-> ri,
                              refineReferences |-> rr])] :
     c \in TrialConditions, ro \in ReferenceOffsetsChoices,
     rt \in BOOLEAN, ri \in BOOLEAN, rr \in RefineReferencesChoices}

CountParametersArgs ==
  {[options |-> [refineTemperature |-> rt, refineIonicStrength |-> ri]] :
     rt \in BOOLEAN, ri \in BOOLEAN}
  \cup
  {[options |-> [refineTemperature |-> rt, refineIonicStrength |-> ri,
                 refineReferences |-> rr]] :
     rt \in BOOLEAN, ri \in BOOLEAN, rr \in RefineReferencesChoices}

FitBufferSelectionIds == {<<>>, <<"A">>, <<"A", "B">>}

FitParametersArgs ==
  [observedShifts : FitObservedShiftsChoices, buffers : FitBufferSelectionIds,
   initialConditions : InitialConditionsChoices, options : FitOptionsChoices]

\* The inputs of a call as the caller sees them once the call has returned.
\* assignPeaks sorts [...shifts], a copy: the caller's array keeps its order
CallerShiftsSortedInPlace(shifts) == SortAscending(shifts)

CallerShiftsAfterSort(shifts) == shifts

\* extractConditions writes the refined offsets into the copy
\* { ...baseConditions.referenceOffsets }: the caller's map keeps its entries
CallerOffsetsAfterExtract(referenceOffsets, extracted) == referenceOffsets

\* the arguments after a call that walked assignPeaks over observedShifts
\* and, when r is a successful fit, extracted the conditions of r from a
\* base that shares initialConditions.referenceOffsets
ArgsAfterCall(a, r) ==
  [f \in DOMAIN a |->
     IF f = "observedShifts"
     THEN [i \in 1..Len(a.observedShifts) |->
             [key |-> a.observedShifts[i].key,
              value |-> CallerShiftsAfterSort(a.observedShifts[i].value)]]
     ELSE IF f = "initialConditions" /\ r.success
             /\ "referenceOffsets" \in DOMAIN a.initialConditions
     THEN [a.initialConditions EXCEPT
             !.referenceOffsets =
               CallerOffsetsAfterExtract(@, r.conditions.referenceOffsets)]
     ELSE a[f]]

\* result = null
Null == [null |-> TRUE]

\* a call of a function that is not fitWithReassignment has none of its locals
NoLocals ==
  /\ round = 0
  /\ loopConditions = [none |-> TRUE]
  /\ loopResult = Null
  /\ fitCalls = 0
  /\ curve = Null
  /\ app = Null

Init ==
  /\ pc = "call"
  /\ \/ op = "calculateConfidence" /\ args \in CalculateConfidenceArgs
     \/ op = "assignSingleShift" /\ args \in AssignSingleShiftArgs
     \/ op = "assignPeaks" /\ args \in AssignPeaksArgs
  /\ ret = [none |-> TRUE]
  /\ lmCalls = 0
  /\ boundsBuilt = FALSE
  /\ NoLocals

FitInit ==
  /\ pc = "call"
  /\ \/ op = "buildParameterVector" /\ args \in BuildParameterVectorArgs
     \/ op = "countParameters" /\ args \in CountParametersArgs
     \/ op = "fitParameters" /\ args \in FitParametersArgs
  /\ ret = [none |-> TRUE]
  /\ lmCalls = 0
  /\ boundsBuilt = FALSE
  /\ NoLocals

\* the return of a fitParameters call
Returned(r) ==
  /\ ret' = [value |-> r.result]
  /\ lmCalls' = r.lmCalls
  /\ boundsBuilt' = r.boundsBuilt

DoCalculateConfidence ==
  /\ pc = "call" /\ op = "calculateConfidence"
  /\ ret' = [value |-> CalculateConfidence(args.distance, args.tolerance,
                                           args.nextBestDistance)]
  /\ pc' = "done"
  /\ UNCHANGED <<op, args, lmCalls, boundsBuilt>>
  /\ UNCHANGED locals

DoAssignSingleShift ==
  /\ pc = "call" /\ op = "assignSingleShift"
  /\ ret' = [value |-> AssignSingleShift(args.observedShift, args.predictions,
                                         args.tolerance)]
  /\ pc' = "done"
  /\ UNCHANGED <<op, args, lmCalls, boundsBuilt>>
  /\ UNCHANGED locals

DoAssignPeaks ==
  /\ pc = "call" /\ op = "assignPeaks"
  /\ ret' = [value |-> AssignPeaks(args.observedShifts, Buffers(args.buffers),
                                   SamplesMap, args.pH, args.temperature,
                                   args.ionicStrength, args.tolerances)]
  /\ args' = ArgsAfterCall(args, [success |-> FALSE])
  /\ pc' = "done"
  /\ UNCHANGED <<op, lmCalls, boundsBuilt>>
  /\ UNCHANGED locals

DoBuildParameterVector ==
  /\ pc = "call" /\ op = "buildParameterVector"
  /\ ret' = [value |-> BuildParameterVector(args.conditions, args.options)]
  /\ pc' = "done"
  /\ UNCHANGED <<op, args, lmCalls, boundsBuilt>>
  /\ UNCHANGED locals

DoCountParameters ==
  /\ pc = "call" /\ op = "countParameters"
  /\ ret' = [value |-> CountParameters(args.options)]
  /\ pc' = "done"
  /\ UNCHANGED <<op, args, lmCalls, boundsBuilt>>
  /\ UNCHANGED locals

DoFitParameters ==
  /\ pc = "call" /\ op = "fitParameters"
  /\ \E lm \in LMBehaviours :
       Returned(FitParameters(args.observedShifts, Buffers(args.buffers),
                              SamplesMap, args.initialConditions,
                              args.options, lm))
  /\ args' = ArgsAfterCall(args, ret'.value)
  /\ pc' = "done"
  /\ UNCHANGED op
  /\ UNCHANGED locals

\* peak assignment
Next ==
  \/ DoCalculateConfidence
  \/ DoAssignSingleShift
  \/ DoAssignPeaks

Spec == Init /\ [][Next]_vars

\* assignPeaks alone, called on every list of a few competing shifts in
\* every order
OrderInit ==
  /\ pc = "call"
  /\ op = "assignPeaks"
  /\ args \in {[observedShifts |-> obs, buffers |-> sel, pH |-> pH,
                temperature |-> 5963, ionicStrength |-> 3, tolerances |-> tol] :
                 obs \in {<<[key |-> "1H", value |-> s]>> :
                            s \in SeqUpTo({28, 29, 38}, MaxObs)}
                         \cup {<<[key |-> "19F", value |-> <<100>>],
                                 [key |-> "1H", value |-> s]>> :
                                 s \in SeqUpTo({28, 29, 38}, MaxObs)},
                 sel \in {<<"A">>, <<"A", "B">>}, pH \in {120, 140},
                 tol \in TolerancesChoices}
  /\ ret = [none |-> TRUE]
  /\ lmCalls = 0
  /\ boundsBuilt = FALSE
  /\ NoLocals

OrderNext == DoAssignPeaks

OrderSpec == OrderInit /\ [][OrderNext]_vars

\* parameter vector and fit
FitNext ==
  \/ DoBuildParameterVector
  \/ DoCountParameters
  \/ DoFitParameters

FitSpec == FitInit /\ [][FitNext]_vars

(***************************************************************************)
(* fitWithReassignment: the fit/reassign loop, one action per step.        *)
(* pc = "call" is the head of the loop, pc = "fitted" the point after the  *)
(* fitParameters call of the round.                                        *)
(***************************************************************************)
\* maxRounds = 3
DEFAULT_MAX_ROUNDS == 3

\* the threshold of the pH change, 0.1
PH_CHANGE_THRESHOLD == 2

\* largest maxRounds a caller passes
MaxRoundsArg == 3

\* the maxRounds of the call: the argument, or its default
MaxRounds == IF "maxRounds" \in DOMAIN args THEN args.maxRounds ELSE DEFAULT_MAX_ROUNDS

\* conditions.pH, <<>> when undefined
ConditionsPH(c) == IF "pH" \in DOMAIN c THEN c.pH ELSE <<>>

\* conditions.pH ?? options.initialPH ?? 7.0
RoundSeedPH(c, options) ==
  IF ConditionsPH(c) # <<>> THEN ConditionsPH(c)[1]
  ELSE IF "initialPH" \in DOMAIN options /\ options.initialPH # <<>>
       THEN options.initialPH[1]
  ELSE DEFAULT_INITIAL_PH

\* the initialPH of the round options with the caller's options.initialPH
\* taken before conditions.pH
RoundOptionsCallerFirst(c, options) ==
  [f \in DOMAIN options \cup {"initialPH"} |->
     IF f # "initialPH" THEN options[f]
     ELSE IF "initialPH" \in DOMAIN options /\ options.initialPH # <<>>
          THEN options.initialPH
     ELSE IF ConditionsPH(c) # <<>> THEN ConditionsPH(c)
     ELSE <<DEFAULT_INITIAL_PH>>]

\* { ...options, initialPH: conditions.pH ?? options.initialPH ?? 7.0 }
RoundOptions(c, options) ==
  [f \in DOMAIN options \cup {"initialPH"} |->
     IF f = "initialPH" THEN <<RoundSeedPH(c, options)>> ELSE options[f]]

\* pHChange < 0.1, where pHChange = Math.abs(result.conditions.pH -
\* conditions.pH) is NaN, and the comparison false, when conditions.pH is
\* undefined
PHChangeBelowThreshold(r, c) ==
  /\ ConditionsPH(c) # <<>>
  /\ Abs(r.conditions.pH - ConditionsPH(c)[1]) < PH_CHANGE_THRESHOLD

\* conditions = result.conditions: the fitted conditions as the conditions
\* object of the next round (its pH is defined)
NextConditions(r) ==
  [temperature |-> r.conditions.temperature,
   ionicStrength |-> r.conditions.ionicStrength,
   referenceOffsets |-> r.conditions.referenceOffsets,
   pH |-> <<r.conditions.pH>>]

\* observations, options and conditions handed to fitWithReassignment
ReassignObservedShiftsChoices ==
  {<<>>, <<[key |-> "1H", value |-> <<29>>]>>,
   <<[key |-> "1H", value |-> <<29, 38>>]>>,
   <<[key |-> "19F", value |-> <<100>>], [key |-> "1H", value |-> <<38, 29>>]>>}

ReassignOptionsChoices ==
  {[refineTemperature |-> FALSE, refineIonicStrength |-> FALSE,
    refineReferences |-> <<>>, initialPH |-> <<DEFAULT_INITIAL_PH>>],
   [refineTemperature |-> TRUE, refineIonicStrength |-> FALSE],
   [refineTemperature |-> FALSE, refineIonicStrength |-> TRUE,
    refineReferences |-> <<[key |-> "1H", value |-> TRUE]>>,
    initialPH |-> <<120>>]}

ReassignConditionsChoices ==
  {[temperature |-> 5963, ionicStrength |-> 3, referenceOffsets |-> <<>>],
   [temperature |-> 5963, ionicStrength |-> 3, pH |-> <<140>>],
   [temperature |-> 5963, ionicStrength |-> 3, pH |-> <<141>>,
    referenceOffsets |-> <<>>]}

FitWithReassignmentArgs ==
  [observedShifts : ReassignObservedShiftsChoices,
   buffers : {<<"A">>, <<"A", "B">>},
   initialConditions : ReassignConditionsChoices,
   options : ReassignOptionsChoices]
  \cup
  [observedShifts : ReassignObservedShiftsChoices,
   buffers : {<<"A">>, <<"A", "B">>},
   initialConditions : ReassignConditionsChoices,
   options : ReassignOptionsChoices,
   maxRounds : 0..MaxRoundsArg]

\* let conditions = { ...initialConditions }; let result = null
ReassignInit ==
  /\ pc = "call"
  /\ op = "fitWithReassignment" /\ args \in FitWithReassignmentArgs
  /\ ret = [none |-> TRUE]
  /\ lmCalls = 0
  /\ boundsBuilt = FALSE
  /\ round = 0
  /\ loopConditions = args.initialConditions
  /\ loopResult = Null
  /\ fitCalls = 0
  /\ curve = Null
  /\ app = Null

\* the outcome of the fitParameters call of a round
RoundFitted(r) ==
  /\ loopResult' = r.result
  /\ lmCalls' = lmCalls + r.lmCalls
  /\ boundsBuilt' = r.boundsBuilt
  /\ fitCalls' = fitCalls + 1

\* round < maxRounds: result = fitParameters(...)
ReassignFit ==
  /\ pc = "call" /\ op = "fitWithReassignment"
  /\ round < MaxRounds
  /\ \E lm \in LMBehaviours :
       RoundFitted(FitParameters(args.observedShifts, Buffers(args.buffers),
                                 SamplesMap, loopConditions,
                                 RoundOptions(loopConditions, args.options), lm))
  /\ args' = ArgsAfterCall(args, IF round = 0 THEN loopResult'
                                 ELSE [success |-> FALSE])
  /\ pc' = "fitted"
  /\ UNCHANGED <<op, ret, round, loopConditions, curve, app>>

\* the loop condition fails: return result
ReassignRoundsExhausted ==
  /\ pc = "call" /\ op = "fitWithReassignment"
  /\ ~(round < MaxRounds)
  /\ ret' = [value |-> loopResult]
  /\ pc' = "done"
  /\ UNCHANGED <<op, args, lmCalls, boundsBuilt>>
  /\ UNCHANGED locals

\* a loop that goes on to the next round after a failed fit
ReassignRetryAfterFailure ==
  /\ pc = "fitted" /\ op = "fitWithReassignment"
  /\ ~loopResult.success
  /\ round' = round + 1
  /\ pc' = "call"
  /\ UNCHANGED <<op, args, ret, lmCalls, boundsBuilt, loopConditions, loopResult, fitCalls, curve, app>>

\* if (!result.success) return result
ReassignFailed ==
  /\ pc = "fitted" /\ op = "fitWithReassignment"
  /\ ~loopResult.success
  /\ ret' = [value |-> loopResult]
  /\ pc' = "done"
  /\ UNCHANGED <<op, args, lmCalls, boundsBuilt>>
  /\ UNCHANGED locals

\* if (pHChange < 0.1) break; return result
ReassignConverged ==
  /\ pc = "fitted" /\ op = "fitWithReassignment"
  /\ loopResult.success
  /\ PHChangeBelowThreshold(loopResult, loopConditions)
  /\ ret' = [value |-> loopResult]
  /\ pc' = "done"
  /\ UNCHANGED <<op, args, lmCalls, boundsBuilt>>
  /\ UNCHANGED locals

\* conditions = result.conditions; round++
ReassignNextRound ==
  /\ pc = "fitted" /\ op = "fitWithReassignment"
  /\ loopResult.success
  /\ ~PHChangeBelowThreshold(loopResult, loopConditions)
  /\ loopConditions' = NextConditions(loopResult)
  /\ round' = round + 1
  /\ pc' = "call"
  /\ UNCHANGED <<op, args, ret, lmCalls, boundsBuilt, loopResult, fitCalls, curve, app>>

\* fit/reassign rounds
ReassignNext ==
  \/ ReassignFit
  \/ ReassignRoundsExhausted
  \/ ReassignFailed
  \/ ReassignConverged
  \/ ReassignNextRound

ReassignSpec == ReassignInit /\ [][ReassignNext]_vars

(***************************************************************************)
(* uncertainty.js.  A floating-point number is modelled by its class:      *)
(* "nan", "zero", "pos", "neg", or "finite" (not NaN, sign unknown).  NaN   *)
(* spreads through every sum, product and quotient it enters; a finite      *)
(* value is assumed to stay within the range of the doubles.  A function    *)
(* that can throw returns [throws |-> TRUE] or [throws |-> FALSE, ...].     *)
(***************************************************************************)
\* class of a * b
Times(a, b) ==
  IF a = "nan" \/ b = "nan" THEN "nan"
  ELSE IF a = "zero" \/ b = "zero" THEN "zero"
  ELSE IF a = "finite" \/ b = "finite" THEN "finite"
  ELSE IF a = b THEN "pos" ELSE "neg"

\* residualFn is [kind |-> "throws"], [kind |-> "undefined"] (it returns
\* no array), or [kind |-> "array", nResiduals, differences], where
\* differences[i][j] is the class of residualsPlus[i] - residualsMinus[i]
\* for the step in parameter j.
CalculateJacobian(residualFn, params) ==
  IF residualFn.kind \in {"throws", "undefined"}
  THEN [throws |-> TRUE]
  ELSE [throws |-> FALSE,
        jacobian |-> [i \in 1..residualFn.nResiduals |->
                        [j \in 1..Len(params) |-> residualFn.differences[i][j]]]]

\* A^T * A; A[0].length throws when A has no row
MatrixTransposeProduct(A) ==
  IF Len(A) = 0 THEN [throws |-> TRUE]
  ELSE LET nRows == Len(A)
           nCols == Len(A[1])
           Entry(i, j) ==
             IF \E k \in 1..nRows : A[k][i] = "nan" \/ A[k][j] = "nan" THEN "nan"
             ELSE IF \A k \in 1..nRows : A[k][i] = "zero" \/ A[k][j] = "zero" THEN "zero"
             ELSE IF i = j THEN "pos"
             ELSE "finite"
       IN [throws |-> FALSE,
           result |-> [i \in 1..nCols |-> [j \in 1..nCols |-> Entry(i, j)]]]

\* Cholesky inversion.  A diagonal sum that is <= 0 is replaced by 1e-10,
\* so every L[i][i] is positive unless it is NaN; only the diagonal of the
\* inverse is returned ("pos" or "nan"), which is all the caller reads.
InvertSymmetricMatrix(A) ==
  LET n == Len(A)
      LNaN[i \in 1..n, j \in 1..n] ==
        IF j > i THEN FALSE
        ELSE IF i = j
          THEN A[i][i] = "nan" \/ \E k \in 1..(i - 1) : LNaN[i, k]
          ELSE \/ A[i][j] = "nan"
               \/ \E k \in 1..(j - 1) : LNaN[i, k] \/ LNaN[j, k]
               \/ LNaN[j, j]
      LinvNaN[j \in 1..n, i \in 1..n] ==
        IF j < i THEN FALSE
        ELSE IF i = j THEN LNaN[i, i]
        ELSE \/ LNaN[j, j]
             \/ \E k \in i..(j - 1) : LNaN[j, k] \/ LinvNaN[k, i]
  IN [i \in 1..n |->
        IF \E k \in i..n : LinvNaN[k, i] THEN "nan" ELSE "pos"]

\* the standard error without the guard: Math.sqrt(variance)
StandardErrorUnguarded(covariance, residualVariance) ==
  LET variance == Times(covariance, residualVariance)
  IN IF variance = "neg" THEN "nan" ELSE variance

\* variance > 0 ? Math.sqrt(variance) : 0
StandardError(covariance, residualVariance) ==
  LET variance == Times(covariance, residualVariance)
  IN IF variance = "pos" THEN "pos" ELSE "zero"

\* the try block of calculateParameterUncertainties
UncertaintyChain(params, residualFn, residualVariance) ==
  LET j == CalculateJacobian(residualFn, params)
  IN IF j.throws THEN [throws |-> TRUE]
     ELSE LET JTJ == MatrixTransposeProduct(j.jacobian)
          IN IF JTJ.throws THEN [throws |-> TRUE]
             ELSE LET covarianceUnscaled == InvertSymmetricMatrix(JTJ.result)
                  IN [throws |-> FALSE,
                      uncertainties |->
                        [i \in 1..Len(params) |->
                           StandardError(covarianceUnscaled[i], residualVariance)]]

CalculateParameterUncertainties(params, residualFn, residualVariance) ==
  LET chain == UncertaintyChain(params, residualFn, residualVariance)
  IN IF chain.throws THEN [i \in 1..Len(params) |-> "zero"]
     ELSE chain.uncertainties

\* residual functions; a negative difference is not drawn, since J^T J
\* is built from products of two differences of one row and only their
\* being zero, nonzero or NaN is followed
ResidualFnChoices(nParams) ==
  {[kind |-> "throws"], [kind |-> "undefined"]} \cup
  UNION {[kind : {"array"}, nResiduals : {n},
          differences : [1..n -> [1..nParams -> {"zero", "pos", "nan"}]]]
         : n \in 0..MaxResiduals}

CalculateParameterUncertaintiesArgs ==
  UNION {[params : {[i \in 1..n |-> DEFAULT_INITIAL_PH]},
          residualFn : ResidualFnChoices(n),
          residualVariance : {"nan", "neg", "zero", "pos"}]
         : n \in 0..MaxParams}

UncertaintyInit ==
  /\ pc = "call"
  /\ op = "calculateParameterUncertainties"
  /\ args \in CalculateParameterUncertaintiesArgs
  /\ ret = [none |-> TRUE]
  /\ lmCalls = 0
  /\ boundsBuilt = FALSE
  /\ NoLocals

DoCalculateParameterUncertainties ==
  /\ pc = "call" /\ op = "calculateParameterUncertainties"
  /\ ret' = [value |-> CalculateParameterUncertainties(args.params, args.residualFn, args.residualVariance)]
  /\ pc' = "done"
  /\ UNCHANGED <<op, args, lmCalls, boundsBuilt>>
  /\ UNCHANGED locals

UncertaintyNext == DoCalculateParameterUncertainties

UncertaintySpec == UncertaintyInit /\ [][UncertaintyNext]_vars

(***************************************************************************)
(* Calls of the pure functions of bufferModel.js.                          *)
(***************************************************************************)
\* ascending lists of pKa values (2.0, 7.0, 12.0) of length 0..MaxPKaCount
AscendingPKaLists ==
  {l \in SeqUpTo({40, 140, 240}, MaxPKaCount) :
     \A i \in 1..(Len(l) - 1) : l[i] <= l[i + 1]}

\* pH from -50 to 50
IonisationFractionsArgs ==
  [pH : {-1000, -20, 140, 300, 1000}, pKaValues : AscendingPKaLists]

\* pKa parameter objects: every ionic-strength model, and none given
PKaParamsChoices ==
  [pKa : {140}, dH_kJ_mol : {0, 30}, dCp_J_mol_K : {0, -200},
   protonated_charge : {0, 1}, ionic_strength_coefficient_per_M : {0, 2},
   ionic_strength_model : {"davies", "extended_debye_huckel", "empirical", "none"}]
  \cup [pKa : {140}, dH_kJ_mol : {0, 30}, dCp_J_mol_K : {0, -200}, protonated_charge : {0, -1}]
  \cup {[pKa |-> 93]}

CalculatePKaArgs ==
  [pKaParams : PKaParamsChoices,
   temperature : {5463, DEFAULT_REF_TEMPERATURE, 6963},
   ionicStrength : {-1, 0, 3, 20},
   referenceTemperature : {DEFAULT_REF_TEMPERATURE, 5463}]

BufferModelInit ==
  /\ pc = "call"
  /\ \/ op = "ionisationFractions" /\ args \in IonisationFractionsArgs
     \/ op = "calculatePKa" /\ args \in CalculatePKaArgs
  /\ ret = [none |-> TRUE]
  /\ lmCalls = 0
  /\ boundsBuilt = FALSE
  /\ NoLocals

DoIonisationFractions ==
  /\ pc = "call" /\ op = "ionisationFractions"
  /\ ret' = [value |-> IonisationFractions(args.pH, args.pKaValues)]
  /\ pc' = "done"
  /\ UNCHANGED <<op, args, lmCalls, boundsBuilt>>
  /\ UNCHANGED locals

DoCalculatePKa ==
  /\ pc = "call" /\ op = "calculatePKa"
  /\ ret' = [value |-> CalculatePKa(args.pKaParams, args.temperature, args.ionicStrength, args.referenceTemperature)]
  /\ pc' = "done"
  /\ UNCHANGED <<op, args, lmCalls, boundsBuilt>>
  /\ UNCHANGED locals

BufferModelNext ==
  \/ DoIonisationFractions
  \/ DoCalculatePKa

BufferModelSpec == BufferModelInit /\ [][BufferModelNext]_vars

(***************************************************************************)
(* generateShiftCurves, statement by statement.  curve holds the index of  *)
(* the resonance of the outer loop, the pH of the inner loop, the arrays   *)
(* pHValues and shifts of that resonance, the curves pushed so far, and    *)
(* the pKaValues computed before the loops.                                *)
(***************************************************************************)
\* buffer.chemical_shifts[nucleus] ?? []
CurveResonances ==
  IF HasKey(Database[args.buffer].chemical_shifts, args.nucleus)
  THEN Get(Database[args.buffer].chemical_shifts, args.nucleus)
  ELSE <<>>

CurveInit ==
  /\ pc = "call"
  /\ op = "generateShiftCurves"
  /\ args \in [buffer : {"A", "B"}, nucleus : Nuclei, temperature : {5963},
               ionicStrength : {3}, pHMin : {139, 140},
               pHMax : {138, 140, 142}, pHStep : {-1, 0, 1, 2}]
  /\ ret = [none |-> TRUE]
  /\ lmCalls = 0
  /\ boundsBuilt = FALSE
  /\ round = 0
  /\ loopConditions = [none |-> TRUE]
  /\ loopResult = Null
  /\ fitCalls = 0
  /\ curve = [resonance |-> 1, pH |-> args.pHMin, pHValues |-> <<>>,
              shifts |-> <<>>, curves |-> <<>>,
              pKaValues |->
                GetBufferPKaValues(Database[args.buffer], args.temperature,
                  args.ionicStrength,
                  RefTemp(SamplesMap, Database[args.buffer]))]
  /\ app = Null

\* pH <= pHMax: pHValues.push(pH); shifts.push(predictShift(...)); pH += pHStep
CurvePush ==
  /\ pc = "call" /\ op = "generateShiftCurves"
  /\ curve.resonance <= Len(CurveResonances)
  /\ curve.pH <= args.pHMax
  /\ Len(curve.pHValues) < MaxCurvePoints
  /\ curve' =
       [curve EXCEPT
          !.pHValues = Append(@, curve.pH),
          !.shifts =
            Append(@, PredictShift(CurveResonances[curve.resonance],
                        curve.pKaValues, curve.pH, args.temperature, args.ionicStrength,
                        RefTemp(SamplesMap, Database[args.buffer]),
                        RefIonic(SamplesMap, Database[args.buffer]))),
          !.pH = @ + args.pHStep]
  /\ UNCHANGED <<op, args, pc, ret, lmCalls, boundsBuilt, round, loopConditions, loopResult, fitCalls, app>>

\* the inner loop ends: curves.push({...}), and the next resonance
CurveClose ==
  /\ pc = "call" /\ op = "generateShiftCurves"
  /\ curve.resonance <= Len(CurveResonances)
  /\ ~(curve.pH <= args.pHMax)
  /\ curve' =
       [resonance |-> curve.resonance + 1, pH |-> args.pHMin,
        pHValues |-> <<>>, shifts |-> <<>>, pKaValues |-> curve.pKaValues,
        curves |->
          Append(curve.curves,
            [buffer_id |-> Database[args.buffer].buffer_id,
             buffer_name |-> Database[args.buffer].buffer_name,
             resonance_id |-> CurveResonances[curve.resonance].resonance_id,
             description |-> CurveResonances[curve.resonance].description,
             nucleus |-> args.nucleus,
             pHValues |-> curve.pHValues, shifts |-> curve.shifts])]
  /\ UNCHANGED <<op, args, pc, ret, lmCalls, boundsBuilt, round, loopConditions, loopResult, fitCalls, app>>

\* the outer loop ends: return curves
CurveReturn ==
  /\ pc = "call" /\ op = "generateShiftCurves"
  /\ curve.resonance > Len(CurveResonances)
  /\ ret' = [value |-> curve.curves]
  /\ pc' = "done"
  /\ UNCHANGED <<op, args, lmCalls, boundsBuilt, round, loopConditions, loopResult, fitCalls, curve, app>>

CurveNext ==
  \/ CurvePush
  \/ CurveClose
  \/ CurveReturn

\* the loops run in one synchronous call: a statement that can run, runs
CurveSpec == CurveInit /\ [][CurveNext]_vars /\ WF_vars(CurveNext)

(***************************************************************************)
(* validation.js.  A message is modelled by the record of what it reports. *)
(***************************************************************************)
\* checkDegreesOfFreedom
CheckDegreesOfFreedom(nObservations, nParameters) ==
  LET dof == nObservations - nParameters
  IN [valid |-> dof > 0, warning |-> dof = 1, nObservations |-> nObservations,
      nParameters |-> nParameters, degreesOfFreedom |-> dof]

\* validateParameters: pH outside 0..14, temperature below 273 K or above
\* 373 K, ionic strength below 0 or above 1 M; a parameter that was not
\* fitted is absent from parameters
ValidateParameters(parameters) ==
  LET Issue(name, Bad(_)) ==
        IF name \in DOMAIN parameters /\ Bad(parameters[name].value)
        THEN <<[parameter |-> name, value |-> parameters[name].value]>>
        ELSE <<>>
      issues == Issue("pH", LAMBDA v : v < 0 \/ v > 280)
                \o Issue("temperature", LAMBDA v : v < 5460 \/ v > 7460)
                \o Issue("ionicStrength", LAMBDA v : v < 0 \/ v > 20)
  IN [valid |-> Len(issues) = 0, issues |-> issues]

\* checkDeviations: more than 2 K, more than 0.05 M from the nominal value
CheckDeviations(fitted, nominal) ==
  LET dT == Abs(fitted.temperature - nominal.temperature)
      dI == Abs(fitted.ionicStrength - nominal.ionicStrength)
      deviations ==
        (IF nominal.temperature # 0 /\ fitted.temperature # 0 /\ dT > 40
         THEN <<[parameter |-> "temperature", difference |-> dT]>> ELSE <<>>)
        \o (IF dI > 1
            THEN <<[parameter |-> "ionicStrength", difference |-> dI]>> ELSE <<>>)
  IN [hasDeviations |-> Len(deviations) > 0, deviations |-> deviations]

\* checkExtrapolation: per sample with measurement_ranges, the quantities
\* whose range does not contain the fitted value
CheckExtrapolation(conditions, samples) ==
  LET Outside(ranges, name, value) ==
        IF name \in DOMAIN ranges /\ (value < ranges[name].min \/ value > ranges[name].max)
        THEN <<name>> ELSE <<>>
      SampleWarnings(sample) ==
        IF "measurement_ranges" \notin DOMAIN sample THEN <<>>
        ELSE Outside(sample.measurement_ranges, "pH", conditions.pH)
             \o Outside(sample.measurement_ranges, "temperature_K", conditions.temperature)
             \o Outside(sample.measurement_ranges, "ionic_strength_M", conditions.ionicStrength)
      flagged == SelectSeq(samples, LAMBDA sample : Len(SampleWarnings(sample)) > 0)
      warnings == [k \in 1..Len(flagged) |->
                     [sample_id |-> flagged[k].sample_id,
                      warnings |-> SampleWarnings(flagged[k])]]
  IN [hasWarnings |-> Len(warnings) > 0, warnings |-> warnings]

\* validateResiduals: the assigned records with a residual whose z-score
\* |residual| / rmsd exceeds 2, when rmsd > 0
ValidateResiduals(assignments, rmsd) ==
  LET flat == Flatten([k \in 1..Len(assignments) |-> assignments[k].value])
      withResidual == SelectSeq(flat, LAMBDA a : a.assigned /\ "residual" \in DOMAIN a)
      outliers == IF rmsd > 0
                  THEN SelectSeq(withResidual, LAMBDA a : Abs(a.residual) > 2 * rmsd)
                  ELSE <<>>
  IN [hasOutliers |-> Len(outliers) > 0, outliers |-> outliers, rmsd |-> rmsd]

\* validateFitResult
ValidateFitResult(result, nominalConditions, samples) ==
  IF ~result.success
  THEN [valid |-> FALSE, error |-> result.error, warnings |-> <<>>, issues |-> <<>>]
  ELSE LET paramValidation == ValidateParameters(result.parameters)
           deviationCheck == CheckDeviations(result.conditions, nominalConditions)
           extrapolationCheck == CheckExtrapolation(result.conditions, samples)
           residualCheck == ValidateResiduals(result.assignments, result.statistics.rmsd)
           issues == IF ~paramValidation.valid THEN paramValidation.issues ELSE <<>>
           warnings ==
             [k \in 1..Len(deviationCheck.deviations) |->
                [check |-> "deviation", about |-> deviationCheck.deviations[k].parameter]]
             \o Flatten([k \in 1..Len(extrapolationCheck.warnings) |->
                  [w \in 1..Len(extrapolationCheck.warnings[k].warnings) |->
                     [check |-> "extrapolation",
                      about |-> extrapolationCheck.warnings[k].warnings[w]]]])
             \o [k \in 1..Len(residualCheck.outliers) |->
                   [check |-> "outlier", about |-> residualCheck.outliers[k].resonance_id]]
       IN [valid |-> Len(issues) = 0, warnings |-> warnings, issues |-> issues,
           statistics |-> result.statistics, residualCheck |-> residualCheck,
           parameterCheck |-> paramValidation,
           extrapolationCheck |-> extrapolationCheck,
           deviationCheck |-> deviationCheck]

\* final assignments of a successful fit: all assigned with high
\* confidence; or a low-confidence record with an alternative, a large
\* residual and an unassigned peak
ValidationAssignmentsChoices ==
  {<<[key |-> "1H", value |->
        <<[assigned |-> TRUE, observed_shift |-> 29, resonance_id |-> "r1",
           confidence |-> "high", alternatives |-> <<>>, residual |-> 0]>>]>>,
   <<[key |-> "1H", value |->
        <<[assigned |-> TRUE, observed_shift |-> 29, resonance_id |-> "r1",
           confidence |-> "low", alternatives |-> <<"r2">>, residual |-> 3],
          [assigned |-> FALSE, observed_shift |-> 100]>>]>>}

\* results of fitParameters; conditions carry the fitted value of a refined
\* parameter and the nominal value of one that was not refined
ValidationResultChoices ==
  {[success |-> FALSE, error |-> "Fitting failed: optimizer error"]} \cup
  {[success |-> TRUE,
    parameters |-> p,
    conditions |->
      [pH |-> p.pH.value,
       temperature |-> IF "temperature" \in DOMAIN p THEN p.temperature.value
                       ELSE DEFAULT_REF_TEMPERATURE,
       ionicStrength |-> IF "ionicStrength" \in DOMAIN p THEN p.ionicStrength.value
                         ELSE 3],
    assignments |-> a,
    statistics |-> [rmsd |-> rmsd, nObservations |-> Cardinality(DOMAIN p) + dof,
                    nParameters |-> Cardinality(DOMAIN p), degreesOfFreedom |-> dof]]
   : p \in [pH : [value : {-1, 140, 281}]]
           \cup [pH : [value : {140, 281}], temperature : [value : {5459, 5963, 6000, 7461}]]
           \cup [pH : [value : {140}], ionicStrength : [value : {-1, 3, 5, 21}]],
     a \in ValidationAssignmentsChoices, rmsd \in {0, 1, 2}, dof \in {0, 1, 2}}

ValidateFitResultArgs ==
  [result : ValidationResultChoices,
   nominalConditions : {[temperature |-> DEFAULT_REF_TEMPERATURE, ionicStrength |-> 3]},
   samples : {<<>>,
              <<[sample_id |-> "s1"],
                [sample_id |-> "s2",
                 measurement_ranges |-> [pH |-> [min |-> 120, max |-> 160],
                                         temperature_K |-> [min |-> 5663, max |-> 6263]]]>>}]

ValidationInit ==
  /\ pc = "call"
  /\ op = "validateFitResult"
  /\ args \in ValidateFitResultArgs
  /\ ret = [none |-> TRUE]
  /\ lmCalls = 0
  /\ boundsBuilt = FALSE
  /\ NoLocals

DoValidateFitResult ==
  /\ pc = "call" /\ op = "validateFitResult"
  /\ ret' = [value |-> ValidateFitResult(args.result, args.nominalConditions, args.samples)]
  /\ pc' = "done"
  /\ UNCHANGED <<op, args, lmCalls, boundsBuilt>>
  /\ UNCHANGED locals

ValidationNext == DoValidateFitResult

ValidationSpec == ValidationInit /\ [][ValidationNext]_vars

(***************************************************************************)
(* The App component with one ShiftInputArea (nucleus 1H).  app holds the  *)
(* state hooks of AppContent, the hooks of the ShiftInputArea while it is  *)
(* mounted (text, debouncedText), what its propagating effect last saw     *)
(* (propagatedText; effect = "mount" before its first run, "render" once   *)
(* a render of the parent has handed it a new onChange, "idle" otherwise), *)
(* and the timers of handleCalculate that have not fired, each with the    *)
(* inputs its closure captured.  A setState call re-renders the App; the   *)
(* state updates of one handler are batched into one render.  The text of  *)
(* the textarea is the sequence of its lines.                              *)
(***************************************************************************)
appFrame == <<op, args, pc, ret, lmCalls, boundsBuilt, round, loopConditions, loopResult, fitCalls, curve>>

\* parseFloat of a trimmed line: <<>> for NaN
ParseFloat(line) ==
  IF line = "2.9" THEN <<29>> ELSE IF line = "3.8" THEN <<38>> ELSE <<>>

\* parseShifts: the lines that are numbers, as numbers
ParseShifts(text) == Flatten([k \in 1..Len(text) |-> ParseFloat(text[k])])

\* value.join('\n')
JoinShifts(value) ==
  [k \in 1..Len(value) |-> IF value[k] = 29 THEN "2.9" ELSE "3.8"]

\* the texts the user types
AppTexts == {<<>>, <<"2.9">>, <<"x", "2.9">>}

\* the inputs of a calculation
CalculationInputs(a) ==
  [observedShifts |-> a.observedShifts, solvent |-> a.solvent,
   selectedBufferIds |-> a.selectedBufferIds, temperature |-> a.temperature,
   ionicStrength |-> a.ionicStrength,
   refineTemperature |-> a.refineTemperature,
   refineIonicStrength |-> a.refineIonicStrength,
   referenceConfigs |-> a.referenceConfigs]

\* selectedBuffers.length > 0: the NucleusTabPanel and its ShiftInputArea
\* are rendered
Mounted(a) == a.selectedBufferIds # <<>>

\* canCalculate
CanCalculate(a) ==
  /\ Len(a.selectedBufferIds) > 0
  /\ SumSeq([i \in 1..Len(a.observedShifts) |-> Len(a.observedShifts[i].value)]) > 0

\* a render of the App: the NucleusTabPanel hands its ShiftInputArea a new
\* arrow function as onChange, a dependency of the propagating effect
Render(a) ==
  IF Mounted(a) /\ a.effect = "idle" THEN [a EXCEPT !.effect = "render"] ELSE a

\* a render of the App that mounts or unmounts the ShiftInputArea: the
\* hooks start from useState(''), and the mount effect sets the text from
\* the value prop if that holds shifts
Remount(a) ==
  LET value == IF HasKey(a.observedShifts, "1H")
               THEN Get(a.observedShifts, "1H") ELSE <<>>
  IN [a EXCEPT !.text = IF Mounted(a) THEN JoinShifts(value) ELSE <<>>,
               !.debouncedText = <<>>, !.propagatedText = <<>>,
               !.effect = IF Mounted(a) THEN "mount" ELSE "idle"]

\* a user action, within the bound of the model
UserActs(a) == [a EXCEPT !.userActions = @ + 1]

AppInit ==
  /\ op = "App" /\ pc = "render"
  /\ args = [none |-> TRUE] /\ ret = [none |-> TRUE]
  /\ lmCalls = 0 /\ boundsBuilt = FALSE
  /\ round = 0 /\ loopConditions = [none |-> TRUE]
  /\ loopResult = Null /\ fitCalls = 0
  /\ curve = Null
  /\ app = [solvent |-> "", selectedBufferIds |-> <<>>, temperature |-> 5963,
            ionicStrength |-> 3, refineTemperature |-> FALSE,
            refineIonicStrength |-> FALSE, referenceConfigs |-> <<>>,
            observedShifts |-> <<>>, calculating |-> FALSE, result |-> Null,
            validation |-> Null, text |-> <<>>, debouncedText |-> <<>>,
            propagatedText |-> <<>>, effect |-> "idle", timers |-> <<>>,
            userActions |-> 0]

\* handleSolventChange
HandleSolventChange ==
  /\ app.userActions < MaxUserActions
  /\ \E newSolvent \in {"", "H2O"} \ {app.solvent} :
       app' = UserActs(Remount([app EXCEPT !.solvent = newSolvent,
                                           !.selectedBufferIds = <<>>,
                                           !.observedShifts = <<>>,
                                           !.result = Null,
                                           !.validation = Null]))
  /\ UNCHANGED appFrame

\* onSelectionChange={setSelectedBufferIds}
SetSelectedBufferIds ==
  /\ app.userActions < MaxUserActions
  /\ \E ids \in {<<>>, <<"A">>, <<"A", "B">>} \ {app.selectedBufferIds} :
       app' = UserActs(IF (ids = <<>>) # (app.selectedBufferIds = <<>>)
                       THEN Remount([app EXCEPT !.selectedBufferIds = ids])
                       ELSE Render([app EXCEPT !.selectedBufferIds = ids]))
  /\ UNCHANGED appFrame

\* onTemperatureChange={setTemperature}, onIonicStrengthChange=
\* {setIonicStrength}, onRefineTemperatureChange={setRefineTemperature},
\* onRefineIonicStrengthChange={setRefineIonicStrength}
SetCondition ==
  /\ app.userActions < MaxUserActions
  /\ \/ app' = UserActs(Render([app EXCEPT !.temperature = IF @ = 5963 THEN 5964 ELSE 5963]))
     \/ app' = UserActs(Render([app EXCEPT !.ionicStrength = IF @ = 3 THEN 0 ELSE 3]))
     \/ app' = UserActs(Render([app EXCEPT !.refineTemperature = ~@]))
     \/ app' = UserActs(Render([app EXCEPT !.refineIonicStrength = ~@]))
  /\ UNCHANGED appFrame

\* handleReferenceConfigChange
HandleReferenceConfigChange ==
  /\ app.userActions < MaxUserActions
  /\ Mounted(app)
  /\ \E refineOffset \in BOOLEAN :
       app' = UserActs(Render([app EXCEPT
                !.referenceConfigs =
                  SetKey(@, "1H", [mode |-> "not_referenced",
                                   refineOffset |-> refineOffset])]))
  /\ UNCHANGED appFrame

\* handleChange of the textarea: setText(e.target.value)
HandleChange ==
  /\ app.userActions < MaxUserActions
  /\ Mounted(app)
  /\ \E t \in AppTexts \ {app.text} :
       app' = UserActs([app EXCEPT !.text = t])
  /\ UNCHANGED appFrame

\* the timer of useDebounce fires: setDebouncedValue(value)
DebounceFires ==
  /\ Mounted(app)
  /\ app.text # app.debouncedText
  /\ app' = [app EXCEPT !.debouncedText = app.text]
  /\ UNCHANGED appFrame

\* the effect of ShiftInputArea with dependencies [debouncedText, onChange]:
\* onChange(parseShifts(debouncedText)), which is handleShiftsChange
PropagateShifts ==
  /\ Mounted(app)
  /\ app.effect # "idle" \/ app.debouncedText # app.propagatedText
  /\ app' = Render([app EXCEPT
                      !.observedShifts =
                        SetKey(@, "1H", ParseShifts(app.debouncedText)),
                      !.result = Null,
                      !.validation = Null,
                      !.propagatedText = app.debouncedText,
                      !.effect = "idle"])
  /\ UNCHANGED appFrame

\* handleCalculate up to its await; the button is disabled while loading
HandleCalculate ==
  /\ app.userActions < MaxUserActions
  /\ CanCalculate(app) /\ ~app.calculating
  /\ app' = UserActs(Render([app EXCEPT
                !.calculating = TRUE,
                !.result = Null,
                !.validation = Null,
                !.timers = Append(@, CalculationInputs(app))]))
  /\ UNCHANGED appFrame

\* the timer of handleCalculate fires.  fitWithReassignment returns a
\* result, and handleCalculate goes on to store it, validate it and reset
\* calculating; or it throws inside the timer callback, the promise is
\* never settled and handleCalculate never resumes.
FitTimerFires ==
  /\ app.timers # <<>>
  /\ \E outcome \in {"success", "failure", "throws"} :
       LET fitResult == [success |-> outcome = "success",
                         inputs |-> Head(app.timers)]
       IN app' = IF outcome = "throws"
                 THEN [app EXCEPT !.timers = Tail(@)]
                 ELSE Render([app EXCEPT
                        !.timers = Tail(@),
                        !.result = fitResult,
                        !.validation = IF fitResult.success
                                       THEN [result |-> fitResult] ELSE @,
                        !.calculating = FALSE])
  /\ UNCHANGED appFrame

AppNext ==
  \/ HandleSolventChange
  \/ SetSelectedBufferIds
  \/ SetCondition
  \/ HandleReferenceConfigChange
  \/ HandleChange
  \/ DebounceFires
  \/ PropagateShifts
  \/ HandleCalculate
  \/ FitTimerFires

AppSpec == AppInit /\ [][AppNext]_vars

(***************************************************************************)
(* The core computations together: one call of assignPeaks, fitParameters, *)
(* fitWithReassignment or validateFitResult.                               *)
(***************************************************************************)
CoreInit ==
  \/ OrderInit
  \/ FitInit /\ op = "fitParameters"
  \/ ReassignInit
  \/ ValidationInit

CoreNext ==
  \/ DoAssignPeaks
  \/ DoFitParameters
  \/ ReassignNext
  \/ DoValidateFitResult

CoreSpec == CoreInit /\ [][CoreNext]_vars

(***************************************************************************)
(* Properties.                                                             *)
(***************************************************************************)
Returns(f) == pc = "done" /\ op = f

\* the assigned records of a list of records
AssignedRecords(records) == SelectSeq(records, LAMBDA a : a.assigned)

\* C1: within one call of assignPeaks, two distinct assigned records of the
\* same nucleus never carry the same (buffer_id, resonance_id) pair.
C1_AssignmentInjective ==
  Returns("assignPeaks") =>
    \A e \in 1..Len(ret.value) :
      LET assigned == AssignedRecords(ret.value[e].value)
      IN \A i, j \in 1..Len(assigned) :
           i # j => <<assigned[i].buffer_id, assigned[i].resonance_id>>
                    # <<assigned[j].buffer_id, assigned[j].resonance_id>>

\* C1 witness: two equal observed shifts of one nucleus are both assigned.
C1_Witness ==
  /\ Returns("assignPeaks")
  /\ \E e \in 1..Len(ret.value) :
       LET assigned == AssignedRecords(ret.value[e].value)
       IN \E i, j \in 1..Len(assigned) :
            i # j /\ assigned[i].observed_shift = assigned[j].observed_shift

\* the tolerance assignPeaks is to use for a nucleus: the caller's, else the
\* default of the nucleus
ExpectedTolerance(tolerances, nucleus) ==
  IF \E i \in 1..Len(tolerances) : tolerances[i].key = nucleus
  THEN tolerances[CHOOSE i \in 1..Len(tolerances) : tolerances[i].key = nucleus].value
  ELSE IF nucleus = "1H" THEN 5 ELSE 30

\* the number of times v occurs in s
Occurrences(s, v) == Cardinality({i \in 1..Len(s) : s[i] = v})

\* C5: assignPeaks returns, for each supplied nucleus, exactly one record
\* per supplied observation, and each record is either assigned (confidence
\* low, medium or high, with buffer_id and resonance_id and |residual| <=
\* tolerance) or an explicit unassigned record (assigned = FALSE,
\* confidence none).
C5_AssignPeaksTotal ==
  Returns("assignPeaks") =>
    /\ Len(ret.value) = Len(args.observedShifts)
    /\ \A e \in 1..Len(ret.value) :
         LET records == ret.value[e].value
             shifts == args.observedShifts[e].value
             observed == [k \in 1..Len(records) |-> records[k].observed_shift]
         IN /\ ret.value[e].key = args.observedShifts[e].key
            /\ Len(records) = Len(shifts)
            /\ \A v \in Range(shifts) \cup Range(observed) :
                 Occurrences(observed, v) = Occurrences(shifts, v)
            /\ \A k \in 1..Len(records) :
                 IF records[k].assigned
                 THEN /\ records[k].confidence \in {"low", "medium", "high"}
                      /\ {"buffer_id", "resonance_id"} \subseteq DOMAIN records[k]
                      /\ Abs(records[k].residual)
                           <= ExpectedTolerance(args.tolerances, ret.value[e].key)
                 ELSE /\ records[k].assigned = FALSE
                      /\ records[k].confidence = "none"

\* C5 witness: one call returns a record for a nucleus without predictions,
\* a record without a prediction within tolerance and an assigned record.
C5_Witness ==
  /\ Returns("assignPeaks")
  /\ args.buffers = <<"B">>
  /\ \E e \in 1..Len(ret.value) :
       ret.value[e].key = "19F" /\ Len(ret.value[e].value) >= 1
  /\ \E e \in 1..Len(ret.value) :
       /\ \E k \in 1..Len(ret.value[e].value) : ret.value[e].value[k].assigned
       /\ \E k \in 1..Len(ret.value[e].value) :
            "nearest" \in DOMAIN ret.value[e].value[k]

\* the confidence the specification gives a best distance d, a tolerance t
\* and a next-best distance n
ExpectedConfidence(d, t, n) ==
  IF d > t THEN "none"
  ELSE IF 10 * d < 3 * t /\ 10 * n > 6 * t THEN "high"
  ELSE IF 10 * d < 6 * t THEN "medium"
  ELSE "low"

\* the distances of an observed shift to a list of predictions
Distances(observedShift, predictions) ==
  [k \in 1..Len(predictions) |-> Abs(observedShift - predictions[k].predicted_shift)]

\* the smallest of a nonempty sequence of distances, and the smallest of
\* the others (Infinity if there is no other)
BestDistance(ds) == MinOf(Range(ds))

NextBestDistance(ds) ==
  IF Len(ds) < 2 THEN Infinity
  ELSE LET b == CHOOSE k \in 1..Len(ds) : ds[k] = BestDistance(ds)
       IN MinOf({ds[k] : k \in (1..Len(ds)) \ {b}})

\* C6: calculateConfidence(d, t, n) with d >= 0, and the confidence of the
\* record assignSingleShift returns for best distance d and next-best
\* distance n, is none if d > t, else high if d < 0.3 t and n > 0.6 t, else
\* medium if d < 0.6 t, else low.
C6_Confidence ==
  /\ (Returns("calculateConfidence") /\ args.distance >= 0) =>
       ret.value = ExpectedConfidence(args.distance, args.tolerance,
                                      args.nextBestDistance)
  /\ (Returns("assignSingleShift") /\ Len(args.predictions) > 0) =>
       LET ds == Distances(args.observedShift, args.predictions)
       IN ret.value.confidence =
            ExpectedConfidence(BestDistance(ds), args.tolerance,
                               NextBestDistance(ds))

\* C6 witness: a close best match with a second candidate beyond 0.6 t is
\* rated high by assignSingleShift.
C6_Witness ==
  /\ Returns("assignSingleShift")
  /\ Len(args.predictions) >= 2
  /\ ret.value.confidence = "high"

\* C7 as claimed: an assigned record of assignSingleShift carries the
\* second-nearest candidate as its one alternative exactly when its
\* confidence is not high and that candidate lies within tolerance
\* (distance <= tolerance), and no alternative otherwise.
C7_AlternativesWithinTolerance ==
  (Returns("assignSingleShift") /\ ret.value.assigned) =>
    LET ds == Distances(args.observedShift, args.predictions)
    IN IF ret.value.confidence # "high" /\ Len(ds) >= 2
          /\ NextBestDistance(ds) <= args.tolerance
       THEN /\ Len(ret.value.alternatives) = 1
            /\ Abs(ret.value.alternatives[1].distance) = NextBestDistance(ds)
       ELSE ret.value.alternatives = <<>>

\* C8 as claimed: every unassigned record of a nucleus that has at least one
\* predicted resonance retains its nearest candidate.
C8_UnassignedRetainsNearest ==
  Returns("assignPeaks") =>
    \A e \in 1..Len(ret.value) :
      GeneratePredictions(Buffers(args.buffers), SamplesMap, args.pH,
                          args.temperature, args.ionicStrength,
                          ret.value[e].key) # <<>>
      => \A k \in 1..Len(ret.value[e].value) :
           ~ret.value[e].value[k].assigned
           => "nearest" \in DOMAIN ret.value[e].value[k]

\* C9 as claimed: the records of a nucleus are those assignPeaks returns
\* for the observations of that nucleus alone, whatever was claimed for the
\* other nuclei of the call.
C9_ExclusionScopedToNucleus ==
  Returns("assignPeaks") =>
    \A e \in 1..Len(ret.value) :
      ret.value[e] =
        AssignPeaks(<<args.observedShifts[e]>>, Buffers(args.buffers),
                    SamplesMap, args.pH, args.temperature,
                    args.ionicStrength, args.tolerances)[1]

\* the assignment fitParameters makes at the seed conditions of its call
SeedAssignments ==
  AssignPeaks(args.observedShifts, Buffers(args.buffers), SamplesMap,
              SeedPH(MergeOptions(args.options), args.initialConditions),
              args.initialConditions.temperature,
              args.initialConditions.ionicStrength, <<>>)

\* the number of assigned records of an assignment set
RECURSIVE AssignedCount(_)
AssignedCount(assignments) ==
  IF assignments = <<>> THEN 0
  ELSE Len(AssignedRecords(Head(assignments).value))
       + AssignedCount(Tail(assignments))

\* the number of free parameters the options ask for: pH, temperature and
\* ionic strength if refined, one offset per nucleus flagged true
ExpectedParameterCount(options) ==
  1 + (IF "refineTemperature" \in DOMAIN options /\ options.refineTemperature
       THEN 1 ELSE 0)
    + (IF "refineIonicStrength" \in DOMAIN options /\ options.refineIonicStrength
       THEN 1 ELSE 0)
    + (IF "refineReferences" \in DOMAIN options
       THEN Cardinality({i \in 1..Len(options.refineReferences) :
                           options.refineReferences[i].value})
       ELSE 0)

NoPeaksError == "No peaks could be assigned to buffer resonances"

UnderdeterminedError == "Underdetermined system"

\* C2 as claimed: whenever fewer peaks are assigned at the seed conditions
\* than there are free parameters, fitParameters returns success false with
\* nObservations, nParameters and degreesOfFreedom equal to the counts, and
\* the optimizer is not invoked.
C2_NegativeDoFCarriesCounts ==
  (Returns("fitParameters")
   /\ AssignedCount(SeedAssignments) < ExpectedParameterCount(args.options)) =>
    /\ ret.value.success = FALSE
    /\ {"nObservations", "nParameters", "degreesOfFreedom"} \subseteq DOMAIN ret.value
    /\ ret.value.nObservations = AssignedCount(SeedAssignments)
    /\ ret.value.nParameters = ExpectedParameterCount(args.options)
    /\ ret.value.degreesOfFreedom =
         AssignedCount(SeedAssignments) - ExpectedParameterCount(args.options)
    /\ lmCalls = 0

\* C2 amended: whenever at least one peak, but fewer peaks than there are
\* free parameters, is assigned at the seed conditions, fitParameters
\* returns success false with nObservations, nParameters and
\* degreesOfFreedom equal to the counts and never invokes the optimizer;
\* with no peak assigned it returns the no-peaks failure, which carries no
\* counts, also without invoking the optimizer.
C2_NegativeDoFCarriesCountsUnlessNoPeaks ==
  (Returns("fitParameters")
   /\ AssignedCount(SeedAssignments) < ExpectedParameterCount(args.options)) =>
    /\ ret.value.success = FALSE
    /\ lmCalls = 0
    /\ IF AssignedCount(SeedAssignments) > 0
       THEN /\ {"nObservations", "nParameters", "degreesOfFreedom"}
                 \subseteq DOMAIN ret.value
            /\ ret.value.nObservations = AssignedCount(SeedAssignments)
            /\ ret.value.nParameters = ExpectedParameterCount(args.options)
            /\ ret.value.degreesOfFreedom =
                 AssignedCount(SeedAssignments)
                 - ExpectedParameterCount(args.options)
       ELSE /\ ret.value.error = NoPeaksError
            /\ {"nObservations", "nParameters", "degreesOfFreedom"}
                 \cap DOMAIN ret.value = {}

\* C2 witness: one assigned observation with temperature and ionic strength
\* refined fails with degreesOfFreedom -2.
C2_Witness ==
  /\ Returns("fitParameters")
  /\ AssignedCount(SeedAssignments) = 1
  /\ args.options.refineTemperature /\ args.options.refineIonicStrength
  /\ "degreesOfFreedom" \in DOMAIN ret.value
  /\ ret.value.degreesOfFreedom = -2

C4_NoPeaksEmptyLists ==
  (Returns("fitParameters") /\ AssignedCount(SeedAssignments) = 0) =>
    /\ \A e \in 1..Len(SeedAssignments) : SeedAssignments[e].value = <<>>
    /\ ret.value.success = FALSE
    /\ ret.value.error = NoPeaksError
    /\ ret.value.assignments = SeedAssignments
    /\ lmCalls = 0 /\ ~boundsBuilt

\* C4 amended: when no observation is assigned at the seed conditions, the
\* assignment set holds for each supplied nucleus one unassigned record per
\* supplied observation (an empty list when none was supplied), and
\* fitParameters fails with the no-peaks error and that assignment set,
\* without building bounds or invoking the optimizer.
C4_NoPeaksUnassignedLists ==
  (Returns("fitParameters") /\ AssignedCount(SeedAssignments) = 0) =>
    /\ Len(SeedAssignments) = Len(args.observedShifts)
    /\ \A e \in 1..Len(SeedAssignments) :
         /\ SeedAssignments[e].key = args.observedShifts[e].key
         /\ Len(SeedAssignments[e].value) = Len(args.observedShifts[e].value)
         /\ \A k \in 1..Len(SeedAssignments[e].value) :
              ~SeedAssignments[e].value[k].assigned
    /\ ret.value.success = FALSE
    /\ ret.value.error = NoPeaksError
    /\ ret.value.assignments = SeedAssignments
    /\ lmCalls = 0 /\ ~boundsBuilt

\* C4 witness: a call that supplies a nucleus with zero observations fails
\* with the no-peaks error and an empty list for the nucleus.
C4_Witness ==
  /\ Returns("fitParameters")
  /\ args.observedShifts # <<>>
  /\ \A e \in 1..Len(args.observedShifts) : args.observedShifts[e].value = <<>>
  /\ ret.value.error = NoPeaksError
  /\ \A e \in 1..Len(ret.value.assignments) : ret.value.assignments[e].value = <<>>

\* C10: buildParameterVector returns a vector with pH at index 0, a
\* name -> index mapping that is injective and covers exactly 0..n-1, and a
\* length n = 1 + (refineTemperature ? 1 : 0) + (refineIonicStrength ? 1 : 0)
\* + (number of nuclei flagged true in refineReferences); countParameters
\* returns the same count for the same options.
C10_ParameterVector ==
  /\ Returns("buildParameterVector") =>
       LET params == ret.value.params
           map == ret.value.parameterMap
           n == Len(params)
       IN /\ map[1].key = "pH" /\ map[1].value.index = 0
          /\ params[1] = args.conditions.pH
          /\ \A i, j \in 1..Len(map) :
               i # j => /\ map[i].key # map[j].key
                        /\ map[i].value.index # map[j].value.index
          /\ {map[i].value.index : i \in 1..Len(map)} = 0..(n - 1)
          /\ n = ExpectedParameterCount(args.options)
          /\ n = CountParameters(args.options)
  /\ Returns("countParameters") =>
       ret.value = ExpectedParameterCount(args.options)

\* C10 witness: a vector of three parameters built from options that flag
\* one nucleus true and another false.
C10_Witness ==
  /\ Returns("buildParameterVector")
  /\ Len(ret.value.params) = 3
  /\ \E i, j \in 1..Len(args.options.refineReferences) :
       /\ args.options.refineReferences[i].value
       /\ ~args.options.refineReferences[j].value

\* C11 as claimed: fitWithReassignment makes at most maxRounds calls of
\* fitParameters and returns, in every case, a structured FitResult: an
\* object whose success is true or false.
C11_BoundedRoundsStructuredResult ==
  op = "fitWithReassignment" =>
    /\ fitCalls <= MaxRounds
    /\ pc = "done" =>
         /\ "success" \in DOMAIN ret.value
         /\ ret.value.success \in BOOLEAN

\* C12 as claimed: after a round that succeeds, fitWithReassignment stops
\* if the fitted pH differs from the seed pH of the round (conditions.pH,
\* else options.initialPH, else 7.0) by less than 0.1, and runs a further
\* round only otherwise.
C12_StopsWithinThresholdOfSeed ==
  [][(pc = "fitted" /\ op = "fitWithReassignment" /\ loopResult.success) =>
       IF Abs(loopResult.conditions.pH - RoundSeedPH(loopConditions, args.options))
            < PH_CHANGE_THRESHOLD
       THEN pc' = "done" /\ ret' = [value |-> loopResult]
       ELSE pc' = "call" /\ round' = round + 1]_vars

\* the result of a fitParameters call whose optimizer threw
OptimizerFailure(r) ==
  /\ "success" \in DOMAIN r
  /\ ~r.success
  /\ r.error = "Fitting failed: optimizer error"

\* the assignment set of the seed conditions of the current round
RoundSeedAssignments ==
  AssignPeaks(args.observedShifts, Buffers(args.buffers), SamplesMap,
              RoundSeedPH(loopConditions, args.options),
              loopConditions.temperature, loopConditions.ionicStrength, <<>>)

\* C13: a round whose fitParameters call invoked the optimizer and did not
\* succeed (the optimizer threw) returns success false with the error that
\* wraps the optimizer's message and with the assignment set of that
\* round's seed conditions; fitWithReassignment then returns that result
\* at once, without another fitParameters call.
C13_OptimizerFailureNotRetried ==
  /\ [](op = "fitWithReassignment" /\ pc = "fitted"
        /\ ~loopResult.success /\ lmCalls = fitCalls
        => /\ OptimizerFailure(loopResult)
           /\ loopResult.assignments = RoundSeedAssignments
           /\ fitCalls = round + 1)
  /\ [][(op = "fitWithReassignment" /\ pc = "fitted" /\ ~loopResult.success)
        => /\ pc' = "done"
           /\ ret' = [value |-> loopResult]
           /\ fitCalls' = fitCalls /\ lmCalls' = lmCalls]_vars

\* C13 witness: the optimizer throws in the second round, after a first
\* round that succeeded, and the failure is returned.
C13_Witness ==
  /\ Returns("fitWithReassignment")
  /\ round = 1 /\ fitCalls = 2 /\ lmCalls = 2
  /\ OptimizerFailure(ret.value)

\* C14: every successful result of fitParameters has nObservations >= 1,
\* degreesOfFreedom = nObservations - nParameters >= 0, exactly
\* nObservations residuals, chiSquared = sumSquares, and reducedChiSquared
\* = chiSquared / degreesOfFreedom when degreesOfFreedom > 0 and
\* = chiSquared when degreesOfFreedom = 0.
C14_SuccessStatistics ==
  (Returns("fitParameters") /\ ret.value.success) =>
    LET st == ret.value.statistics
    IN /\ st.nObservations >= 1
       /\ st.nObservations = AssignedCount(SeedAssignments)
       /\ st.nParameters = ExpectedParameterCount(args.options)
       /\ st.degreesOfFreedom = st.nObservations - st.nParameters
       /\ st.degreesOfFreedom >= 0
       /\ Len(ret.value.residuals) = st.nObservations
       /\ st.sumSquares = SumSeq([k \in 1..Len(ret.value.residuals) |->
                                    ret.value.residuals[k] * ret.value.residuals[k]])
       /\ st.chiSquared = st.sumSquares
       /\ st.reducedChiSquared.num = st.chiSquared
       /\ st.reducedChiSquared.den =
            (IF st.degreesOfFreedom > 0 THEN st.degreesOfFreedom ELSE 1)

\* C14 witness: a successful fit of two observations with one free
\* parameter and nonzero residuals.
C14_Witness ==
  /\ Returns("fitParameters") /\ ret.value.success
  /\ ret.value.statistics.degreesOfFreedom = 1
  /\ ret.value.statistics.sumSquares > 0

\* the try block of calculateParameterUncertainties fails for these
\* arguments: the residual function throws or returns no residuals
UncertaintyChainFails ==
  \/ args.residualFn.kind \in {"throws", "undefined"}
  \/ args.residualFn.nResiduals = 0

\* C15: calculateParameterUncertainties returns (it never raises) one entry
\* per parameter, each a number that is not NaN and is >= 0, and all
\* entries are 0 when the residual function throws or returns no
\* residuals.
C15_UncertaintiesTotal ==
  Returns("calculateParameterUncertainties") =>
    /\ DOMAIN ret = {"value"}
    /\ Len(ret.value) = Len(args.params)
    /\ \A i \in 1..Len(ret.value) : ret.value[i] \in {"zero", "pos"}
    /\ UncertaintyChainFails => \A i \in 1..Len(ret.value) : ret.value[i] = "zero"

\* C15 witness: the residual function returns no residuals for two
\* parameters and two zeros are returned.
C15_Witness ==
  /\ Returns("calculateParameterUncertainties")
  /\ args.residualFn.kind = "array" /\ args.residualFn.nResiduals = 0
  /\ args.residualVariance = "pos"
  /\ ret.value = <<"zero", "zero">>

\* J^T J is singular because a column of the Jacobian is zero (and no
\* entry is NaN)
ZeroJacobianColumn ==
  /\ args.residualFn.kind = "array"
  /\ args.residualFn.nResiduals >= 1
  /\ \A i \in 1..args.residualFn.nResiduals : \A j \in 1..Len(args.params) :
       args.residualFn.differences[i][j] # "nan"
  /\ \E j \in 1..Len(args.params) : \A i \in 1..args.residualFn.nResiduals :
       args.residualFn.differences[i][j] = "zero"

\* C16 as claimed: when J^T J is singular (a Jacobian column is zero) the
\* all-zero uncertainty vector is returned.
C16_SingularGivesZeros ==
  (Returns("calculateParameterUncertainties") /\ ZeroJacobianColumn) =>
    \A i \in 1..Len(ret.value) : ret.value[i] = "zero"

\* C17 as claimed: for every ascending pKa list of length 0..6 and every
\* pH from -50 to 50, ionisationFractions returns length + 1 fractions
\* that sum to 1 (no fraction is NaN, the total is finite and the
\* relatives add up to it); for the empty list the single fraction is 1.
C17_FractionsSumToOne ==
  Returns("ionisationFractions") =>
    /\ Len(ret.value.relatives) = Len(args.pKaValues) + 1
    /\ ret.value.overflow = {}
    /\ ret.value.totalFinite
    /\ SumSeq(ret.value.relatives) = ret.value.total
    /\ ret.value.total > 0
    /\ args.pKaValues = <<>> => ret.value.relatives = <<1>> /\ ret.value.total = 1

\* C18: calculatePKa at the reference temperature and ionic strength 0
\* returns the reference pKa unchanged, for the models davies,
\* extended_debye_huckel, empirical and none and when no model is given.
C18_ReferenceConditionsGiveReferencePKa ==
  (Returns("calculatePKa")
   /\ args.temperature = args.referenceTemperature /\ args.ionicStrength = 0)
  => ret.value = args.pKaParams.pKa

\* C18 witness: a pKa with enthalpy, heat capacity and no model given
\* (davies by default, charged acid) is evaluated at its reference
\* temperature and ionic strength 0.
C18_Witness ==
  /\ Returns("calculatePKa")
  /\ args.temperature = args.referenceTemperature /\ args.ionicStrength = 0
  /\ "ionic_strength_model" \notin DOMAIN args.pKaParams
  /\ "dH_kJ_mol" \in DOMAIN args.pKaParams
  /\ args.pKaParams.dH_kJ_mol = 30 /\ args.pKaParams.dCp_J_mol_K = -200
  /\ args.pKaParams.protonated_charge = -1
  /\ ret.value = 140

\* the final assignments hold an unassigned, a low-confidence or an
\* ambiguous peak
AssignmentQualityIssue ==
  \E k \in 1..Len(args.result.assignments) :
    \E a \in Range(args.result.assignments[k].value) :
      \/ ~a.assigned
      \/ a.confidence = "low"
      \/ Len(a.alternatives) > 0

\* the report says something beyond the plausibility, deviation,
\* extrapolation and residual-outlier checks
ReportsBeyondFourChecks ==
  \/ \E k \in 1..Len(ret.value.warnings) :
       ret.value.warnings[k].check \notin {"deviation", "extrapolation", "outlier"}
  \/ Len(ret.value.issues) > Len(ret.value.parameterCheck.issues)
  \/ DOMAIN ret.value # {"valid", "warnings", "issues", "statistics", "residualCheck",
                         "parameterCheck", "extrapolationCheck", "deviationCheck"}

\* C19 as claimed: for a successful FitResult the report of
\* validateFitResult reflects the degrees-of-freedom check (valid is false
\* when DoF <= 0, a warning or issue is added when DoF = 1) and the
\* assignment-quality check (unassigned, low-confidence and ambiguous
\* peaks are reported).
C19_ReportComposesEveryCheck ==
  (Returns("validateFitResult") /\ args.result.success) =>
    LET dofCheck == CheckDegreesOfFreedom(args.result.statistics.nObservations,
                                          args.result.statistics.nParameters)
    IN /\ ~dofCheck.valid => ~ret.value.valid
       /\ dofCheck.warning => ReportsBeyondFourChecks
       /\ AssignmentQualityIssue => ReportsBeyondFourChecks

\* a fitted value of the result lies outside its physical domain
OutOfDomainParameter ==
  LET p == args.result.parameters
  IN \/ p.pH.value < 0 \/ p.pH.value > 280
     \/ "temperature" \in DOMAIN p /\ (p.temperature.value < 5460 \/ p.temperature.value > 7460)
     \/ "ionicStrength" \in DOMAIN p /\ (p.ionicStrength.value < 0 \/ p.ionicStrength.value > 20)

\* C20 as claimed: for a successful FitResult with a fitted value outside
\* the physical domain, validateFitResult flags the value, reports it among
\* the warnings of the report (a warning that is not one of the deviation,
\* extrapolation and outlier warnings), and does not turn the fit into an
\* error:
\* the result keeps success true and the report carries no issue (which
\* the application lists under "Errors") and stays valid.
C20_ImplausibleValueIsWarning ==
  (Returns("validateFitResult") /\ args.result.success /\ OutOfDomainParameter) =>
    /\ ~ret.value.parameterCheck.valid
    /\ args.result.success
    /\ \E k \in 1..Len(ret.value.warnings) :
         ret.value.warnings[k].check \notin {"deviation", "extrapolation", "outlier"}
    /\ ret.value.issues = <<>>
    /\ ret.value.valid

\* the box of a parameter, from the name it has in the parameter map
RoleBox(key) ==
  IF key = "pH" THEN <<0, 280>>
  ELSE IF key = "temperature" THEN <<5460, 7460>>
  ELSE IF key = "ionicStrength" THEN <<0, 20>>
  ELSE <<-100, 100>>

\* the lower and upper vectors over a parameter vector give every index the
\* box of the name that index has in the map, and are as long as the vector
BoundsFollowRoles(pv) ==
  LET minValues == MinValues(pv.params, pv.parameterMap)
      maxValues == MaxValues(pv.params, pv.parameterMap)
  IN /\ Len(minValues) = Len(pv.params)
     /\ Len(maxValues) = Len(pv.params)
     /\ \A k \in 1..Len(pv.parameterMap) :
          LET i == pv.parameterMap[k].value.index + 1
              key == pv.parameterMap[k].key
          IN /\ key = "pH" \/ key = "temperature" \/ key = "ionicStrength"
                \/ IsRefKey(key)
             /\ <<minValues[i], maxValues[i]>> = RoleBox(key)

\* C25: for every combination of refine flags the bounds handed to the
\* optimizer give each parameter index the box of its role, [0, 14] for pH,
\* [273, 373] K for the temperature, [0, 1] M for the ionic strength and
\* [-10, 10] ppm for every reference offset, and the lower and upper
\* vectors have the length of the parameter vector.
C25_BoundsFollowRoles ==
  /\ Returns("buildParameterVector") => BoundsFollowRoles(ret.value)
  /\ (Returns("fitParameters") /\ boundsBuilt) =>
       BoundsFollowRoles(BuildParameterVector(
         BaseConditions(MergeOptions(args.options), args.initialConditions),
         MergeOptions(args.options)))

\* C25 witness: the vector of a call that refines the ionic strength and a
\* reference offset but not the temperature.
C25_Witness ==
  /\ Returns("buildParameterVector")
  /\ HasKey(ret.value.parameterMap, "ionicStrength")
  /\ ~HasKey(ret.value.parameterMap, "temperature")
  /\ \E k \in 1..Len(ret.value.parameterMap) : IsRefKey(ret.value.parameterMap[k].key)

\* the assignment set over all the observations of the call at the fitted
\* conditions of a successful result
AssignmentsAtFitted(r) ==
  AssignPeaks(args.observedShifts, Buffers(args.buffers), SamplesMap,
              r.conditions.pH, r.conditions.temperature,
              r.conditions.ionicStrength, <<>>)

\* the loop stands before the fitParameters call of a round after the first
BeforeFurtherRound == op = "fitWithReassignment" /\ pc = "call" /\ round >= 1 /\ round < MaxRounds

\* C26: the final assignment set of a successful round is the peak
\* assignment over all the original observations at the fitted pH,
\* temperature and ionic strength; a further round is seeded with exactly
\* these fitted conditions, so the peaks fitted in round k+1 are exactly the
\* assigned records of the final assignment set of round k.
C26_NextRoundFitsFinalAssignment ==
  /\ [](op = "fitWithReassignment" /\ pc = "fitted" /\ loopResult.success
        => loopResult.assignments = AssignmentsAtFitted(loopResult))
  /\ [](BeforeFurtherRound
        => /\ SeedPH(MergeOptions(RoundOptions(loopConditions, args.options)),
                     loopConditions) = loopResult.conditions.pH
           /\ loopConditions.temperature = loopResult.conditions.temperature
           /\ loopConditions.ionicStrength = loopResult.conditions.ionicStrength
           /\ RoundSeedAssignments = loopResult.assignments)
  /\ [][BeforeFurtherRound /\ pc' = "fitted"
        => IF loopResult'.success
           THEN /\ loopResult'.statistics.nObservations
                     = AssignedCount(loopResult.assignments)
                /\ Len(loopResult'.residuals)
                     = Len(GetAssignedPeaksForFitting(loopResult.assignments))
           ELSE loopResult'.assignments = loopResult.assignments]_vars

\* C26 witness: a second round was fitted on the final assignment set of a
\* first round whose fit moved the pH, with a peak assigned.
C26_Witness ==
  /\ op = "fitWithReassignment" /\ pc = "fitted" /\ round = 1
  /\ loopResult.success
  /\ loopResult.statistics.nObservations >= 1
  /\ loopConditions.pH # ConditionsPH(args.initialConditions)

\* the (observed shift, buffer, resonance, confidence) of the records of a
\* nucleus, as a set
RecordSet(records) ==
  {[observed_shift |-> records[k].observed_shift,
    buffer_id |-> IF records[k].assigned THEN records[k].buffer_id ELSE "",
    resonance_id |-> IF records[k].assigned THEN records[k].resonance_id ELSE "",
    confidence |-> records[k].confidence] : k \in 1..Len(records)}

Reversed(s) == [k \in 1..Len(s) |-> s[Len(s) + 1 - k]]

Rotated(s) == IF s = <<>> THEN s ELSE Tail(s) \o <<Head(s)>>

\* the observations with the list of entry i replaced
WithShifts(observedShifts, i, shifts) ==
  [observedShifts EXCEPT ![i] = [key |-> observedShifts[i].key, value |-> shifts]]

\* the record set of entry i when assignPeaks is called on the arguments of
\* the call but with the list of that entry in another order
RecordSetWith(i, shifts) ==
  RecordSet(AssignPeaks(WithShifts(args.observedShifts, i, shifts),
                        Buffers(args.buffers), SamplesMap, args.pH,
                        args.temperature, args.ionicStrength,
                        args.tolerances)[i].value)

\* C24: assignPeaks consumes the observations of each nucleus in ascending
\* order and gives each the nearest prediction not yet claimed, so the set
\* of (observed shift, buffer, resonance, confidence) records of a nucleus
\* does not depend on the order in which the caller lists the observations
\* of that nucleus.  (Every order is reached from the list of the call by
\* reversals and rotations, and every list is the list of some call.)
C24_OrderOfObservationsIrrelevant ==
  Returns("assignPeaks") =>
    \A i \in 1..Len(args.observedShifts) :
      LET records == ret.value[i].value
          shifts == args.observedShifts[i].value
      IN /\ \A k, l \in 1..Len(records) :
              k < l => records[k].observed_shift <= records[l].observed_shift
         /\ \A k \in 1..Len(records) :
              records[k].assigned =>
                \A l \in (k + 1)..Len(records) :
                  records[l].assigned =>
                    PredictionKey(records[l]) # PredictionKey(records[k])
         /\ RecordSet(records) = RecordSetWith(i, Reversed(shifts))
         /\ RecordSet(records) = RecordSetWith(i, Rotated(shifts))

\* C24 witness: two observations listed in descending order that compete
\* for one prediction: both lie within the tolerance of the prediction the
\* lower one is given, and the higher one is given another or none.
C24_Witness ==
  /\ Returns("assignPeaks")
  /\ \E i \in 1..Len(args.observedShifts) :
       LET shifts == args.observedShifts[i].value
           records == ret.value[i].value
       IN /\ Len(shifts) = 2 /\ shifts[1] > shifts[2]
          /\ records[1].assigned
          /\ Abs(shifts[1] - records[1].predicted_shift)
               < Abs(shifts[2] - records[1].predicted_shift)
          /\ Abs(shifts[1] - records[1].predicted_shift)
               < ExpectedTolerance(args.tolerances, args.observedShifts[i].key)

\* the peak of an assigned record: its nucleus, observed shift and resonance
PeakOf(p) == <<p.nucleus, p.observed_shift, p.buffer_id, p.resonance_id>>

\* the residuals the assigned records of an assignment set carry, in the
\* order of the records
RECURSIVE RecordResiduals(_)
RecordResiduals(assignments) ==
  IF assignments = <<>> THEN <<>>
  ELSE LET assigned == AssignedRecords(Head(assignments).value)
       IN [k \in 1..Len(assigned) |-> assigned[k].residual]
          \o RecordResiduals(Tail(assignments))

\* the assigned records of the result are the peaks that were fitted
C28_SamePeaks ==
  (Returns("fitParameters") /\ ret.value.success) =>
    LET final == GetAssignedPeaksForFitting(ret.value.assignments)
        fitted == GetAssignedPeaksForFitting(SeedAssignments)
    IN [k \in 1..Len(final) |-> PeakOf(final[k])]
         = [k \in 1..Len(fitted) |-> PeakOf(fitted[k])]

\* the number of assigned records is statistics.nObservations
C28_SameCount ==
  (Returns("fitParameters") /\ ret.value.success) =>
    AssignedCount(ret.value.assignments) = ret.value.statistics.nObservations

\* the residual of each assigned record is the entry of residuals
C28_SameResiduals ==
  (Returns("fitParameters") /\ ret.value.success) =>
    RecordResiduals(ret.value.assignments) = ret.value.residuals

\* C28 as claimed: in every successful FitResult the assigned records of
\* assignments are exactly the peaks whose residuals are in residuals, the
\* number of assigned records is statistics.nObservations, and the residual
\* of each assigned record equals the corresponding entry of residuals.
C28_AssignmentsMatchResiduals ==
  /\ C28_SamePeaks
  /\ C28_SameCount
  /\ C28_SameResiduals

C27_CurvesTerminate ==
  /\ <>(pc = "done")
  /\ [](Returns("generateShiftCurves")
        => /\ Len(ret.value) = Len(CurveResonances)
           /\ \A k \in 1..Len(ret.value) :
                /\ ret.value[k].resonance_id = CurveResonances[k].resonance_id
                /\ Len(ret.value[k].pHValues) = Len(ret.value[k].shifts))
  /\ [][args' = args]_vars

\* C22 as claimed: the App discards the stored FitResult and
\* ValidationReport (sets them to null) whenever any calculation input
\* changes: the observed shifts, the solvent, the selected buffers, the
\* nominal temperature, the nominal ionic strength, the refine flags or
\* the reference configuration.
C22_InputChangeDiscardsResult ==
  [][CalculationInputs(app') # CalculationInputs(app)
     => app'.result = Null /\ app'.validation = Null]_vars

\* C23 as claimed: the App discards stale completions: if the inputs have
\* changed between the start of handleCalculate and the completion of its
\* deferred fit, the completing result is not stored; and at most one
\* calculation is in flight.
C23_StaleCompletionDiscarded ==
  /\ [](Len(app.timers) <= 1)
  /\ [][(Len(app'.timers) < Len(app.timers)
         /\ Head(app.timers) # CalculationInputs(app))
        => app'.result = app.result /\ app'.validation = app.validation]_vars

\* a stored ValidationReport belongs to a stored successful FitResult
ValidationOfStoredResult ==
  app.validation # Null =>
    /\ app.result # Null
    /\ app.result.success
    /\ app.validation.result = app.result

C30_StoredResultStays ==
  /\ [](app.effect # "render")
  /\ [][(app.result # Null /\ app'.result = Null)
        => \/ app.debouncedText # app.propagatedText
           \/ app.effect = "mount"
           \/ app'.solvent # app.solvent
           \/ app'.calculating /\ ~app.calculating]_vars

====
